---- MODULE Spec2Model ----
(***************************************************************************)
(* Verification model of the autoTrader Portfolio Decision Engine.         *)
(*                                                                         *)
(* Eight sub-machines, each with its own specification:                    *)
(*   SpecGen   - LocalGeneratorService.generate_sequences_batched          *)
(*   SpecReb   - RebalancingService.calculate_rebalance_trades             *)
(*   SpecSize  - calculate_position_size                                   *)
(*   SpecScore - calculate_stock_score / calculate_quality_score           *)
(*   SpecJobs  - the locked jobs of app.jobs run by overlapping triggers   *)
(*   SpecRefresh - one run of _refresh_all_scores_internal                 *)
(*   SpecQuality - calculate_quality_score and its component scores        *)
(*   SpecHist  - one run of _reconstruct_portfolio_history                 *)
(*                                                                         *)
(* The sequence generator works on exact integer amounts of a minor unit;  *)
(* the sizer, the scorers and the rebalancer work on IEEE-754 binary64     *)
(* values with Python's rounding; the history reconstruction works on      *)
(* whole amounts.                                                          *)
(***************************************************************************)
EXTENDS Integers, Sequences, FiniteSets, TLC

VARIABLES
    \* ---- generate_sequences_batched (one async generator object) ----
    g_pc,               \* position of the generator body / consumer
    request,            \* GenerateSequencesRequest of the current call
    all_sequences,      \* local: result of generate_action_sequences
    feasible_sequences, \* local: result of _apply_feasibility_filter
    total_batches,      \* local
    batch_number,       \* local: loop variable
    pydantic_built,     \* batch numbers whose pydantic_sequences were built
    delivered,          \* SequenceBatch objects received by the consumer
    restarted,          \* this call follows a stream the consumer abandoned
    \* ---- calculate_position_size (one call) ----
    sz_pc,              \* "input" before the call, "done" after it
    candidate,          \* StockPriority argument
    base_size,          \* argument
    min_size,           \* argument
    position_size,      \* returned value
    \* ---- calculate_stock_score (one call) ----
    sc_pc,              \* "input", "blended" (total_score computed), "done"
    score_input,        \* arguments and what the data sources hold
    quality,            \* local: QualityScore or None
    opportunity,        \* local: OpportunityScore or None
    analyst,            \* local: AnalystScore or None
    allocation_fit,     \* local: AllocationFitScore or None
    total_score,        \* local: weighted total before rounding
    calculated,         \* returned CalculatedStockScore
    \* ---- RebalancingService.calculate_rebalance_trades (one call) ----
    rb_pc,              \* "start", "scoring", "ranking", "allocating", "done"
    available_cash,     \* argument
    settings,           \* app.config.settings
    stocks_data,        \* what stock_repo.get_with_scores() holds
    max_trades,         \* local
    priority_inputs,    \* local: qualifying securities, in universe order
    selected,           \* local: top max_trades of the ranking
    base_trade_size,    \* local
    remaining_cash,     \* local
    next_candidate,     \* position of the for loop in selected
    recommendations,    \* local, returned
    rb_reads,           \* collaborators the call has read so far
    \* ---- locked jobs of app.jobs, one coroutine per trigger ----
    locks,              \* file_lock name -> trigger holding it, 0 when free
    job_pc,             \* per trigger: "idle", "acquiring", "body",
                        \* "returned", "raised"
    job_of,             \* per trigger: the job function it called
    job_waited,         \* per trigger: it found the lock held at least once
    job_events,         \* per trigger: SystemEvents passed to emit, in order
    job_log,            \* per trigger: levels of its logger calls, in order
    job_raised,         \* per trigger: exception that left the job function
    \* ---- _refresh_all_scores_internal (one run of the cycle body) ----
    rf_pc,              \* "start", "selecting", "context", "loop", "commit",
                        \* "returned", "cancelled"
    rf_n,               \* len(stocks): active securities selected
    rf_outcomes,        \* what happened to each row processed so far
    rf_db_version,      \* version of the positions / scores tables
    rf_context,         \* local portfolio_context: version it was built from
    rf_passed,          \* per row: portfolio_context passed to the scorer
    rf_pending,         \* rows whose INSERT ran and is not yet committed
    rf_committed,       \* rows whose score is committed
    rf_events,          \* SystemEvents passed to emit, in order
    rf_log,             \* levels of the logger calls, in order
    \* ---- calculate_quality_score from metrics and fundamentals (one call) ----
    q_pc,               \* "input" before the call, "done" after it
    q_in,               \* arguments, and the metrics computed from the price series
    q_raw,              \* locals: the six component scores before rounding
    q_out,              \* returned QualityScore or None
    \* ---- _reconstruct_portfolio_history (one run) ----
    hs_pc,              \* "start", "loop", "returned"
    trades,             \* rows of SELECT ... FROM trades ORDER BY executed_at
    cash_flow_rows,     \* rows of the cash_flows table
    portfolio_snapshots,\* table portfolio_snapshots: date -> row
    start_date,         \* local start_date
    end_date,           \* local end_date
    existing_snapshots, \* dates that had a snapshot before the loop
    cash_flows,         \* result of _get_cash_flows: date -> amount
    initial_cash,       \* result of _get_initial_cash_balance
    current_date,       \* date the loop is at
    positions,          \* symbol -> quantity held
    cash_balance,       \* running cash balance
    trade_index,        \* trades[:trade_index] are dealt with
    processed,          \* snapshots written by this run
    hs_applied          \* indexes of the trades applied, in order

gen_vars == <<g_pc, request, all_sequences, feasible_sequences, total_batches,
              batch_number, pydantic_built, delivered, restarted>>

size_vars == <<sz_pc, candidate, base_size, min_size, position_size>>

score_vars == <<sc_pc, score_input, quality, opportunity, analyst,
                allocation_fit, total_score, calculated>>

reb_vars == <<rb_pc, available_cash, settings, stocks_data, max_trades,
              priority_inputs, selected, base_trade_size, remaining_cash,
              next_candidate, recommendations, rb_reads>>

jobs_vars == <<locks, job_pc, job_of, job_waited, job_events, job_log,
               job_raised>>

refresh_vars == <<rf_pc, rf_n, rf_outcomes, rf_db_version, rf_context,
                  rf_passed, rf_pending, rf_committed, rf_events, rf_log>>

quality_vars == <<q_pc, q_in, q_raw, q_out>>

hist_vars == <<hs_pc, trades, cash_flow_rows, portfolio_snapshots,
               start_date, end_date, existing_snapshots, cash_flows,
               initial_cash, current_date, positions, cash_balance,
               trade_index, processed, hs_applied>>

vars == <<gen_vars, size_vars, score_vars, reb_vars, jobs_vars,
          refresh_vars,
          quality_vars,
          hist_vars>>

\* What a step of one machine leaves alone: the other machines.
gen_frame == <<size_vars, score_vars, reb_vars, jobs_vars,
               refresh_vars,
               quality_vars,
               hist_vars>>

size_frame == <<gen_vars, score_vars, reb_vars, jobs_vars,
                refresh_vars,
                quality_vars,
                hist_vars>>

score_frame == <<gen_vars, size_vars, reb_vars, jobs_vars,
                 refresh_vars,
                 quality_vars,
                 hist_vars>>

reb_frame == <<gen_vars, size_vars, score_vars, jobs_vars,
               refresh_vars,
               quality_vars,
               hist_vars>>

jobs_frame == <<gen_vars, size_vars, score_vars, reb_vars,
                refresh_vars,
                quality_vars,
                hist_vars>>

refresh_frame == <<gen_vars, size_vars, score_vars, reb_vars, jobs_vars,
                   quality_vars,
                   hist_vars>>

quality_frame == <<gen_vars, size_vars, score_vars, reb_vars, jobs_vars,
          refresh_vars,
                   hist_vars>>

hist_frame == <<gen_vars, size_vars, score_vars, reb_vars, jobs_vars,
          refresh_vars,
          quality_vars>>

(***************************************************************************)
(* Bounds of the model.                                                    *)
(***************************************************************************)
\* Most sequences generate_action_sequences returns in one call.
MaxSeqs == 3

\* Most securities in the scored universe.
MaxStocks == 3

\* Most triggers of the locked jobs that overlap.
MaxTriggers == 3

\* Most active securities of one score-refresh pass.
MaxRows == 3

(***************************************************************************)
(* Generic helpers.                                                        *)
(***************************************************************************)
Max(a, b) == IF a >= b THEN a ELSE b

Min(a, b) == IF a <= b THEN a ELSE b

\* An absent (None) value is the empty tuple.
None == <<>>

IsNone(x) == x = <<>>

\* An absent string argument (geography = None).
NoString == "<None>"

\* Python truth value of a string argument.
StrTruthy(x) == x \notin {NoString, ""}

RECURSIVE SeqsOver(_, _)
\* All sequences over S of length exactly n without a repeated element.
SeqsOver(S, n) ==
    IF n = 0 THEN {<<>>}
    ELSE {Append(s, x) : s \in {t \in SeqsOver(S, n - 1) : TRUE}, x \in S}

NoRepeat(s) == \A i, j \in 1..Len(s) : i # j => s[i] # s[j]

RECURSIVE ListsUpTo(_, _)
\* All lists over S of length at most n.
ListsUpTo(S, n) ==
    IF n = 0 THEN {<<>>}
    ELSE ListsUpTo(S, n - 1) \cup
         {Append(l, x) : l \in {t \in ListsUpTo(S, n - 1) : Len(t) = n - 1}, x \in S}

(***************************************************************************)
(* Sequence Generator: requests.                                           *)
(***************************************************************************)
\* transaction_cost_percent is PCT / PctScale.
PctScale == 100

\* ActionCandidateModel records of the request, by category.
Opportunities ==
    [profit_taking    |-> << [side |-> "SELL", symbol |-> "AAA", quantity |-> 3,
                              price |-> 51, value_eur |-> 153] >>,
     averaging_down   |-> << >>,
     rebalance_sells  |-> << >>,
     rebalance_buys   |-> << [side |-> "BUY", symbol |-> "BBB", quantity |-> 1,
                              price |-> 248, value_eur |-> 248] >>,
     opportunity_buys |-> << [side |-> "BUY", symbol |-> "CCC", quantity |-> 2,
                              price |-> 60, value_eur |-> 100] >>]

\* FeasibilitySettings of a request.
FeasibilitySettings ==
    [available_cash : {103, 400},
     min_trade_value : {100, 120},
     transaction_cost_fixed : {2},
     transaction_cost_percent : {1}]

Requests ==
    [opportunities : {Opportunities},
     feasibility : FeasibilitySettings,
     max_depth : {2},
     enable_weighted_combinations : {TRUE},
     batch_size : {1, 2}]

(***************************************************************************)
(* Conversions between the Pydantic model and the domain ActionCandidate.  *)
(***************************************************************************)
\* TradeSide(model.side): the enum member whose value is the string.
TradeSide(s) == [enum |-> "TradeSide", value |-> s]

ActionCandidateFromModel(m) ==
    [side |-> TradeSide(m.side), symbol |-> m.symbol, quantity |-> m.quantity,
     price |-> m.price, value_eur |-> m.value_eur]

\* action.side.value if hasattr(action.side, "value") else action.side
ActionCandidateToModel(a) ==
    [side |-> IF "value" \in DOMAIN a.side THEN a.side.value ELSE a.side,
     symbol |-> a.symbol, quantity |-> a.quantity,
     price |-> a.price, value_eur |-> a.value_eur]

ConvertPool(pool) == [i \in 1..Len(pool) |-> ActionCandidateFromModel(pool[i])]

\* The opportunities dict in domain form.
DomainOpportunities(req) ==
    [c \in DOMAIN req.opportunities |-> ConvertPool(req.opportunities[c])]

(***************************************************************************)
(* generate_action_sequences (holistic planner): any list of at most       *)
(* MaxSeqs sequences, each 1..max_depth distinct candidates of the pools.  *)
(***************************************************************************)
PoolCandidates(opps) ==
    UNION {{opps[c][i] : i \in 1..Len(opps[c])} : c \in DOMAIN opps}

CandidateSequences(opps, max_depth) ==
    {s \in UNION {SeqsOver(PoolCandidates(opps), n) : n \in 1..max_depth} :
        NoRepeat(s)}

GenerateActionSequences(opps, max_depth) ==
    ListsUpTo(CandidateSequences(opps, max_depth), MaxSeqs)

(***************************************************************************)
(* _apply_feasibility_filter.  Amounts are scaled by PctScale so that      *)
(* value * percent stays an integer.                                       *)
(***************************************************************************)
\* trade_cost = transaction_cost_fixed + value_eur * transaction_cost_percent
TradeCost(action, f) ==
    f.transaction_cost_fixed * PctScale
        + action.value_eur * f.transaction_cost_percent

SideStr(action) ==
    IF "value" \in DOMAIN action.side THEN action.side.value ELSE action.side

RECURSIVE CashRequiredFromPrice(_, _)
CashRequiredFromPrice(sequence, f) ==
    IF sequence = <<>> THEN 0
    ELSE LET action == Head(sequence) IN
         (IF SideStr(action) = "BUY"
          THEN action.price * action.quantity * PctScale + TradeCost(action, f)
          ELSE 0) + CashRequiredFromPrice(Tail(sequence), f)

RECURSIVE CashRequired(_, _)
CashRequired(sequence, f) ==
    IF sequence = <<>> THEN 0
    ELSE LET action == Head(sequence) IN
         (IF SideStr(action) = "BUY"
          THEN action.value_eur * PctScale + TradeCost(action, f)
          ELSE 0) + CashRequired(Tail(sequence), f)

RECURSIVE CashGenerated(_, _)
CashGenerated(sequence, f) ==
    IF sequence = <<>> THEN 0
    ELSE LET action == Head(sequence) IN
         (IF SideStr(action) = "BUY"
          THEN 0
          ELSE action.value_eur * PctScale - TradeCost(action, f))
         + CashGenerated(Tail(sequence), f)

NetCashRequired(sequence, f) == CashRequired(sequence, f) - CashGenerated(sequence, f)

AllAboveMin(sequence, f) ==
    \A i \in 1..Len(sequence) : sequence[i].value_eur >= f.min_trade_value

CashFitsStrict(sequence, f) ==
    NetCashRequired(sequence, f) < f.available_cash * PctScale

\* net_cash_required <= feasibility.available_cash
CashFits(sequence, f) ==
    NetCashRequired(sequence, f) <= f.available_cash * PctScale

IsFeasibleNoMin(sequence, f) == CashFits(sequence, f)

IsFeasible(sequence, f) ==
    CashFits(sequence, f) /\ AllAboveMin(sequence, f)

RECURSIVE FilterUntilInfeasible(_, _)
FilterUntilInfeasible(sequences, f) ==
    IF sequences = <<>> \/ ~IsFeasible(Head(sequences), f) THEN <<>>
    ELSE <<Head(sequences)>> \o FilterUntilInfeasible(Tail(sequences), f)

RECURSIVE ApplyFeasibilityFilter(_, _)
ApplyFeasibilityFilter(sequences, f) ==
    IF sequences = <<>> THEN <<>>
    ELSE (IF IsFeasible(Head(sequences), f) THEN <<Head(sequences)>> ELSE <<>>)
         \o ApplyFeasibilityFilter(Tail(sequences), f)

(***************************************************************************)
(* Batching.                                                               *)
(***************************************************************************)
TotalBatchesRoundedDown(n, batch_size) == Max(1, n \div batch_size)

\* max(1, (len(feasible_sequences) + batch_size - 1) // batch_size)
TotalBatches(n, batch_size) == Max(1, (n + batch_size - 1) \div batch_size)

\* feasible_sequences[start_idx:end_idx]
BatchSequences(feasible, bn, batch_size) ==
    LET start_idx == bn * batch_size
        end_idx   == Min(start_idx + batch_size, Len(feasible))
    IN SubSeq(feasible, start_idx + 1, end_idx)

PydanticSequences(batch_sequences) ==
    [i \in 1..Len(batch_sequences) |->
        [j \in 1..Len(batch_sequences[i]) |->
            ActionCandidateToModel(batch_sequences[i][j])]]

SequenceBatch(bn, feasible, batch_size, total) ==
    [batch_number |-> bn,
     sequences |-> PydanticSequences(BatchSequences(feasible, bn, batch_size)),
     total_batches |-> total,
     more_available |-> bn < total - 1]

BuiltEagerly(bn, total) == bn..(total - 1)

\* The batches whose payload one pass of the loop body builds.
BuiltInLoopBody(bn, total) == {bn}

(***************************************************************************)
(* Python floats: IEEE 754 binary64, round to nearest, ties to even.       *)
(* A float is [s, m, e] with value (-1)^s * m * 2^e, m a natural number of *)
(* exactly 53 bits held as a list of 15-bit limbs, lowest first; zero has  *)
(* the empty list. The values of this program stay far from infinities,    *)
(* NaN and subnormal numbers, which are left out.  The Big operators are   *)
(* the arithmetic of natural numbers on limb lists that the float          *)
(* operators F... are built from.                                          *)
(***************************************************************************)
Limb == 32768

LimbBits == 15

MantissaBits == 53

RECURSIVE BigNorm(_)
BigNorm(a) ==
    IF a = <<>> THEN a
    ELSE IF a[Len(a)] = 0 THEN BigNorm(SubSeq(a, 1, Len(a) - 1)) ELSE a

RECURSIVE BigFromInt(_)
BigFromInt(n) == IF n = 0 THEN <<>> ELSE <<n % Limb>> \o BigFromInt(n \div Limb)

RECURSIVE BigToInt(_)
BigToInt(a) == IF a = <<>> THEN 0 ELSE a[1] + Limb * BigToInt(Tail(a))

LimbAt(a, i) == IF i <= Len(a) THEN a[i] ELSE 0

RECURSIVE BigCmpFrom(_, _, _)
BigCmpFrom(a, b, i) ==
    IF i = 0 THEN 0
    ELSE IF a[i] # b[i] THEN (IF a[i] < b[i] THEN -1 ELSE 1)
    ELSE BigCmpFrom(a, b, i - 1)

\* -1, 0 or 1 as a < b, a = b, a > b.
BigCmp(a, b) ==
    IF Len(a) # Len(b) THEN (IF Len(a) < Len(b) THEN -1 ELSE 1)
    ELSE BigCmpFrom(a, b, Len(a))

RECURSIVE BigAddFrom(_, _, _, _)
BigAddFrom(a, b, i, carry) ==
    IF i > Len(a) /\ i > Len(b)
    THEN (IF carry = 0 THEN <<>> ELSE <<carry>>)
    ELSE LET s == LimbAt(a, i) + LimbAt(b, i) + carry
         IN <<s % Limb>> \o BigAddFrom(a, b, i + 1, s \div Limb)

BigAdd(a, b) == BigAddFrom(a, b, 1, 0)

RECURSIVE BigSubFrom(_, _, _, _)
BigSubFrom(a, b, i, borrow) ==
    IF i > Len(a) THEN <<>>
    ELSE LET d == a[i] - LimbAt(b, i) - borrow
         IN IF d < 0 THEN <<d + Limb>> \o BigSubFrom(a, b, i + 1, 1)
            ELSE <<d>> \o BigSubFrom(a, b, i + 1, 0)

\* a - b for a >= b.
BigSub(a, b) == BigNorm(BigSubFrom(a, b, 1, 0))

RECURSIVE BigMulSmallFrom(_, _, _, _)
BigMulSmallFrom(a, k, i, carry) ==
    IF i > Len(a) THEN (IF carry = 0 THEN <<>> ELSE <<carry>>)
    ELSE LET p == a[i] * k + carry
         IN <<p % Limb>> \o BigMulSmallFrom(a, k, i + 1, p \div Limb)

\* a * k for 0 <= k < Limb.
BigMulSmall(a, k) == IF k = 0 THEN <<>> ELSE BigMulSmallFrom(a, k, 1, 0)

BigShlLimbs(a, n) == IF a = <<>> THEN a ELSE [j \in 1..n |-> 0] \o a

RECURSIVE BigMulFrom(_, _, _)
BigMulFrom(a, b, i) ==
    IF i > Len(b) THEN <<>>
    ELSE BigAdd(BigShlLimbs(BigMulSmall(a, b[i]), i - 1), BigMulFrom(a, b, i + 1))

BigMul(a, b) == BigMulFrom(a, b, 1)

\* a * 2^k
BigShl(a, k) == BigShlLimbs(BigMulSmall(a, 2 ^ (k % LimbBits)), k \div LimbBits)

BigReverse(a) == [i \in 1..Len(a) |-> a[Len(a) + 1 - i]]

RECURSIVE BigDivSmallFrom(_, _, _, _)
BigDivSmallFrom(a, d, i, rem) ==
    IF i = 0 THEN <<>>
    ELSE LET cur == rem * Limb + a[i]
         IN <<cur \div d>> \o BigDivSmallFrom(a, d, i - 1, cur % d)

\* a \div d for 0 < d <= Limb.
BigDivSmall(a, d) == BigNorm(BigReverse(BigDivSmallFrom(a, d, Len(a), 0)))

\* a \div 2^k
BigShr(a, k) ==
    IF k \div LimbBits >= Len(a) THEN <<>>
    ELSE BigDivSmall(SubSeq(a, (k \div LimbBits) + 1, Len(a)), 2 ^ (k % LimbBits))

RECURSIVE BitLen(_)
BitLen(n) == IF n = 0 THEN 0 ELSE 1 + BitLen(n \div 2)

BigBitLen(a) == IF a = <<>> THEN 0 ELSE LimbBits * (Len(a) - 1) + BitLen(a[Len(a)])

RECURSIVE BigQuotientLimb(_, _, _)
\* The largest q <= guess with d * q <= cur.
BigQuotientLimb(cur, d, guess) ==
    IF BigCmp(BigMulSmall(d, guess), cur) > 0
    THEN BigQuotientLimb(cur, d, guess - 1)
    ELSE guess

\* The limb of the quotient for cur \div d, cur < d * Limb, where the top
\* limb of d has its highest bit set.
BigQuotientGuess(cur, d) ==
    Min(Limb - 1,
        (LimbAt(cur, Len(d) + 1) * Limb + LimbAt(cur, Len(d))) \div d[Len(d)])

RECURSIVE BigDivFrom(_, _, _, _)
BigDivEmit(a, d, j, cur, q) ==
    <<q>> \o BigDivFrom(a, d, j - 1, BigSub(cur, BigMulSmall(d, q)))

BigDivStep(a, d, j, cur) ==
    BigDivEmit(a, d, j, cur, BigQuotientLimb(cur, d, BigQuotientGuess(cur, d)))

\* Long division, one limb of the quotient at a time, from limb j of a down:
\* the limbs of the quotient, highest first, and then the remainder.
BigDivFrom(a, d, j, rem) ==
    IF j = 0 THEN <<rem>> ELSE BigDivStep(a, d, j, BigNorm(<<a[j]>> \o rem))

BigDivAll(a, d) == BigDivFrom(a, d, Len(a), <<>>)

BigDivResult(a, qr, sh) ==
    <<BigNorm(BigReverse(SubSeq(qr, 1, Len(a)))), BigShr(qr[Len(a) + 1], sh)>>

BigDivNormalized(a, d, sh) == BigDivResult(a, BigDivAll(a, d), sh)

BigDivShifted(a, b, sh) == BigDivNormalized(BigShl(a, sh), BigShl(b, sh), sh)

\* <<a \div b, a % b>> for b > 0.
BigDivMod(a, b) == BigDivShifted(a, b, LimbBits - BitLen(b[Len(b)]))

FZero == [s |-> 0, m |-> <<>>, e |-> 0]

\* m * 2^e, m of 53 or of 54 bits.
FPack(s, m, e) ==
    IF BigBitLen(m) > MantissaBits
    THEN [s |-> s, m |-> BigShr(m, 1), e |-> e + 1]
    ELSE [s |-> s, m |-> m, e |-> e]

\* Round to nearest, ties to even: c compares the dropped part with a half.
FRoundsUp(c, q, inexact) == c = 1 \/ (c = 0 /\ (inexact \/ q[1] % 2 = 1))

FRoundDropped(s, n, e, inexact, sh, q) ==
    FPack(s,
          IF FRoundsUp(BigCmp(BigSub(n, BigShl(q, sh)), BigShl(<<1>>, sh - 1)),
                       q, inexact)
          THEN BigAdd(q, <<1>>) ELSE q,
          e + sh)

FRoundLen(s, n, e, inexact, len) ==
    IF len <= MantissaBits
    THEN [s |-> s, m |-> BigShl(n, MantissaBits - len), e |-> e - (MantissaBits - len)]
    ELSE FRoundDropped(s, n, e, inexact, len - MantissaBits,
                       BigShr(n, len - MantissaBits))

\* The float nearest to (-1)^s * (n + f) * 2^e, where 0 <= f < 1 and f > 0
\* exactly when inexact is TRUE (n then has more than 54 bits).
FRound(s, n, e, inexact) ==
    IF n = <<>> THEN FZero ELSE FRoundLen(s, n, e, inexact, BigBitLen(n))

FRatioRound(s, qr, e) == FRound(s, qr[1], e, qr[2] # <<>>)

FRatioShifted(s, n, d, e, k) == FRatioRound(s, BigDivMod(BigShl(n, k), d), e - k)

\* The float nearest to (-1)^s * (n / d) * 2^e.
FRatio(s, n, d, e) ==
    IF n = <<>> THEN FZero
    ELSE FRatioShifted(s, n, d, e,
                       Max(0, MantissaBits + 3 + BigBitLen(d) - BigBitLen(n)))

\* float(n) for an int n
FInt(n) == FRound(IF n < 0 THEN 1 ELSE 0, BigFromInt(IF n < 0 THEN -n ELSE n), 0, FALSE)

\* The float a decimal literal n/d denotes, as 0.35 for 35/100.
F(n, d) == FRatio(IF n < 0 THEN 1 ELSE 0, BigFromInt(IF n < 0 THEN -n ELSE n), BigFromInt(d), 0)

FNeg(a) == IF a.m = <<>> THEN a ELSE [a EXCEPT !.s = 1 - a.s]

FAlignedAt(a, b, e) ==
    [e |-> e,
     a |-> IF a.m = <<>> THEN <<>> ELSE BigShl(a.m, a.e - e),
     b |-> IF b.m = <<>> THEN <<>> ELSE BigShl(b.m, b.e - e)]

\* a and b as whole multiples of 2^Min(a.e, b.e)
FAligned(a, b) ==
    FAlignedAt(a, b, IF a.m = <<>> THEN b.e ELSE IF b.m = <<>> THEN a.e ELSE Min(a.e, b.e))

FAddCompared(sa, sb, al, c) ==
    FRound(IF sa = sb \/ c = 1 THEN sa ELSE sb,
           IF sa = sb THEN BigAdd(al.a, al.b)
           ELSE IF c = 1 THEN BigSub(al.a, al.b)
           ELSE IF c = 0 THEN <<>>
           ELSE BigSub(al.b, al.a),
           al.e, FALSE)

FAddAligned(sa, sb, al) == FAddCompared(sa, sb, al, BigCmp(al.a, al.b))

\* a + b
FAdd(a, b) == FAddAligned(a.s, b.s, FAligned(a, b))

\* a - b
FSub(a, b) == FAdd(a, FNeg(b))

\* a * b
FMul(a, b) ==
    IF a.m = <<>> \/ b.m = <<>> THEN FZero
    ELSE FRound((a.s + b.s) % 2, BigMul(a.m, b.m), a.e + b.e, FALSE)

\* a / b for b # 0
FDiv(a, b) == FRatio((a.s + b.s) % 2, a.m, b.m, a.e - b.e)

FCmpMagnitude(a, b) ==
    IF a.e # b.e THEN (IF a.e < b.e THEN -1 ELSE 1) ELSE BigCmp(a.m, b.m)

\* -1, 0 or 1 as a < b, a == b, a > b.
FCmp(a, b) ==
    IF a.m = <<>> /\ b.m = <<>> THEN 0
    ELSE IF a.m = <<>> THEN (IF b.s = 1 THEN 1 ELSE -1)
    ELSE IF b.m = <<>> THEN (IF a.s = 1 THEN -1 ELSE 1)
    ELSE IF a.s # b.s THEN (IF a.s = 1 THEN -1 ELSE 1)
    ELSE IF a.s = 1 THEN FCmpMagnitude(b, a) ELSE FCmpMagnitude(a, b)

FLt(a, b) == FCmp(a, b) < 0

FLe(a, b) == FCmp(a, b) <= 0

\* min(a, b) and max(a, b) of Python: the first argument unless the second
\* is strictly smaller (larger).
FMin(a, b) == IF FLt(b, a) THEN b ELSE a

FMax(a, b) == IF FLt(a, b) THEN b ELSE a

FMagnitudeToInt(a) ==
    IF a.m = <<>> THEN 0
    ELSE IF a.e >= 0 THEN BigToInt(BigShl(a.m, a.e))
    ELSE BigToInt(BigShr(a.m, -a.e))

\* int(a): towards zero.
FToInt(a) == IF a.s = 1 THEN -FMagnitudeToInt(a) ELSE FMagnitudeToInt(a)

FRoundHalfEven(q, c) ==
    IF c = 1 \/ (c = 0 /\ q # <<>> /\ q[1] % 2 = 1) THEN BigAdd(q, <<1>>) ELSE q

FRoundScaled(s, n, sh, q, scale) ==
    FRatio(s,
           FRoundHalfEven(q, BigCmp(BigSub(n, BigShl(q, sh)), BigShl(<<1>>, sh - 1))),
           BigFromInt(scale), 0)

FRoundFraction(s, n, sh, scale) == FRoundScaled(s, n, sh, BigShr(n, sh), scale)

\* round(a, ndigits) with scale = 10^ndigits: the exact value of a rounded
\* half-to-even to a multiple of 1/scale, then the float nearest to that.
FRoundDigits(a, scale) ==
    IF a.m = <<>> \/ a.e >= 0 THEN a
    ELSE FRoundFraction(a.s, BigMulSmall(a.m, scale), -a.e, scale)

FIsZero(a) == a.m = <<>>

(***************************************************************************)
(* Position Sizer: calculate_position_size.                                *)
(***************************************************************************)
MIN_CONVICTION_MULTIPLIER == F(8, 10)

MAX_CONVICTION_MULTIPLIER == F(12, 10)

MIN_PRIORITY_MULTIPLIER == F(9, 10)

MAX_PRIORITY_MULTIPLIER == F(11, 10)

MIN_VOLATILITY_MULTIPLIER == F(5, 10)

MAX_POSITION_SIZE_MULTIPLIER == F(15, 10)

\* MIN + (stock_score - 0.5) * 0.8, not clamped
ConvictionMultUnclamped(c) ==
    FAdd(MIN_CONVICTION_MULTIPLIER, FMul(FSub(c.stock_score, F(5, 10)), F(8, 10)))

\* MIN + (stock_score - 0.5) * 0.8, clamped
ConvictionMult(c) ==
    FMax(MIN_CONVICTION_MULTIPLIER,
         FMin(MAX_CONVICTION_MULTIPLIER,
              FAdd(MIN_CONVICTION_MULTIPLIER,
                   FMul(FSub(c.stock_score, F(5, 10)), F(8, 10)))))

\* MIN + (combined_priority / 3.0) * 0.2, clamped
PriorityMult(c) ==
    FMax(MIN_PRIORITY_MULTIPLIER,
         FMin(MAX_PRIORITY_MULTIPLIER,
              FAdd(MIN_PRIORITY_MULTIPLIER,
                   FMul(FDiv(c.combined_priority, FInt(3)), F(2, 10)))))

\* max(MIN, 1.0 - (volatility - 0.15) * 0.5) when volatility is not None
VolMult(c) ==
    IF ~IsNone(c.volatility)
    THEN FMax(MIN_VOLATILITY_MULTIPLIER,
              FSub(FInt(1), FMul(FSub(c.volatility, F(15, 100)), F(5, 10))))
    ELSE FInt(1)

\* size = base_size * conviction_mult * priority_mult * vol_mult
RawPositionSize(c, base, minsz) ==
    FMul(FMul(FMul(base, ConvictionMult(c)), PriorityMult(c)), VolMult(c))

ClampCapLast(c, base, minsz) ==
    FMin(FMax(minsz, RawPositionSize(c, base, minsz)),
         FMul(base, MAX_POSITION_SIZE_MULTIPLIER))

\* max(min_size, min(size, base_size * MAX_POSITION_SIZE_MULTIPLIER))
CalculatePositionSize(c, base, minsz) ==
    FMax(minsz,
         FMin(RawPositionSize(c, base, minsz),
              FMul(base, MAX_POSITION_SIZE_MULTIPLIER)))

\* StockPriority arguments of the sizer.
SizerCandidates ==
    [stock_score : {FInt(0), F(3, 10), F(5, 10), F(75, 100), FInt(1)},
     combined_priority : {FInt(0), F(5, 10), F(15, 10), FInt(3), FInt(4)},
     volatility : {None, FInt(0), F(15, 100), F(35, 100), FInt(2)}]

SizerBaseSizes == {FInt(100), FInt(400), FInt(1000)}

SizerMinSizes == {FInt(50), FInt(400), FInt(700)}

SizeIdle ==
    /\ sz_pc = "idle"
    /\ candidate = None
    /\ base_size = None
    /\ min_size = None
    /\ position_size = None

(***************************************************************************)
(* Stock Scorer: calculate_stock_score and the component scorers it calls. *)
(***************************************************************************)
SCORE_WEIGHT_QUALITY == F(35, 100)

SCORE_WEIGHT_OPPORTUNITY == F(35, 100)

SCORE_WEIGHT_ANALYST == F(15, 100)

SCORE_WEIGHT_ALLOCATION_FIT == F(15, 100)

SCORE_WEIGHT_BASE == F(85, 100)

MIN_MONTHS_FOR_CAGR == 24

QUALITY_WEIGHT_TOTAL_RETURN == F(40, 100)

QUALITY_WEIGHT_CONSISTENCY == F(20, 100)

QUALITY_WEIGHT_FINANCIAL_STRENGTH == F(20, 100)

QUALITY_WEIGHT_SHARPE == F(10, 100)

QUALITY_WEIGHT_MAX_DRAWDOWN == F(10, 100)

\* round(x, 3)
Round3(x) == FRoundDigits(x, 1000)

\* min(1.0, weighted component scores + dividend_bonus)
QualityTotal(c) ==
    FMin(FInt(1),
         FAdd(FAdd(FAdd(FAdd(FAdd(
             FMul(c.total_return_score, QUALITY_WEIGHT_TOTAL_RETURN),
             FMul(c.consistency_score, QUALITY_WEIGHT_CONSISTENCY)),
             FMul(c.financial_strength_score, QUALITY_WEIGHT_FINANCIAL_STRENGTH)),
             FMul(c.sharpe_ratio_score, QUALITY_WEIGHT_SHARPE)),
             FMul(c.max_drawdown_score, QUALITY_WEIGHT_MAX_DRAWDOWN)),
             c.dividend_bonus))

\* calculate_quality_score: None on short history, else the rounded scores.
\* components: the six component scores computed from prices and fundamentals.
CalculateQualityScore(monthly_len, components) ==
    IF monthly_len < MIN_MONTHS_FOR_CAGR THEN None
    ELSE [total_return_score       |-> Round3(components.total_return_score),
          consistency_score        |-> Round3(components.consistency_score),
          financial_strength_score |-> Round3(components.financial_strength_score),
          dividend_bonus           |-> Round3(components.dividend_bonus),
          sharpe_ratio_score       |-> Round3(components.sharpe_ratio_score),
          max_drawdown_score       |-> Round3(components.max_drawdown_score),
          total                    |-> Round3(QualityTotal(components)),
          history_years            |-> FRoundDigits(FDiv(FInt(monthly_len), FInt(12)), 10)]

\* max(0, min(1, 0.5 + (upside_pct / 100) * 2.5))
TargetScore(upside_pct) ==
    FMax(FInt(0), FMin(FInt(1),
        FAdd(F(5, 10), FMul(FDiv(upside_pct, FInt(100)), F(25, 10)))))

\* recommendation_score * 0.60 + target_score * 0.40
AnalystTotal(recommendation_score, target_score) ==
    FAdd(FMul(recommendation_score, F(60, 100)), FMul(target_score, F(40, 100)))

\* calculate_analyst_score: None without analyst data.
CalculateAnalystScore(data) ==
    IF IsNone(data) THEN None
    ELSE [recommendation_score |-> Round3(data.recommendation_score),
          target_score         |-> Round3(TargetScore(data.upside_pct)),
          total                |-> Round3(AnalystTotal(data.recommendation_score,
                                                       TargetScore(data.upside_pct)))]

TotalOrZero(score) == IF IsNone(score) THEN FInt(0) ELSE score.total

\* score.total if score else 0.5
TotalOrNeutral(score) == IF IsNone(score) THEN F(5, 10) ELSE score.total

\* if portfolio_context and geography: calculate_allocation_fit_score(...)
AllocationFit(input) ==
    IF ~IsNone(input.portfolio_context) /\ StrTruthy(input.geography)
    THEN [total |-> input.fit_total]
    ELSE None

BaseScore(q, o, a) ==
    FAdd(FAdd(FMul(q, SCORE_WEIGHT_QUALITY), FMul(o, SCORE_WEIGHT_OPPORTUNITY)),
         FMul(a, SCORE_WEIGHT_ANALYST))

WeightedTotalNotRenormalized(q, o, a, fit) ==
    IF ~IsNone(fit)
    THEN FAdd(BaseScore(q, o, a), FMul(fit.total, SCORE_WEIGHT_ALLOCATION_FIT))
    ELSE BaseScore(q, o, a)

WeightedTotalAlwaysRenormalized(q, o, a, fit) ==
    IF ~IsNone(fit)
    THEN FDiv(FAdd(BaseScore(q, o, a),
                   FMul(fit.total, SCORE_WEIGHT_ALLOCATION_FIT)),
              SCORE_WEIGHT_BASE)
    ELSE FDiv(BaseScore(q, o, a), SCORE_WEIGHT_BASE)

\* The 4-term total, or the 3-term base score divided by SCORE_WEIGHT_BASE.
WeightedTotal(q, o, a, fit) ==
    IF ~IsNone(fit)
    THEN FAdd(BaseScore(q, o, a), FMul(fit.total, SCORE_WEIGHT_ALLOCATION_FIT))
    ELSE FDiv(BaseScore(q, o, a), SCORE_WEIGHT_BASE)

DefaultQualityScore ==
    [total_return_score |-> F(5, 10), consistency_score |-> F(5, 10),
     financial_strength_score |-> F(5, 10), dividend_bonus |-> FInt(0),
     sharpe_ratio_score |-> F(5, 10), max_drawdown_score |-> F(5, 10),
     total |-> F(5, 10), history_years |-> FInt(0)]

DefaultOpportunityScore ==
    [below_52w_high |-> F(5, 10), ema_distance |-> F(5, 10),
     pe_vs_historical |-> F(5, 10), rsi_score |-> F(5, 10),
     bollinger_score |-> F(5, 10), total |-> F(5, 10)]

DefaultAnalystScore ==
    [recommendation_score |-> F(5, 10), target_score |-> F(5, 10),
     total |-> F(5, 10)]

\* An OpportunityScore as calculate_opportunity_score returns it.
OpportunityWith(t) ==
    [below_52w_high |-> t, ema_distance |-> t, pe_vs_historical |-> t,
     rsi_score |-> t, bollinger_score |-> t, total |-> t]

\* Component scores calculate_quality_score derives from its inputs.
QualityComponents ==
    { [total_return_score |-> FInt(1), consistency_score |-> FInt(1),
       financial_strength_score |-> FInt(1), dividend_bonus |-> F(1, 10),
       sharpe_ratio_score |-> FInt(1), max_drawdown_score |-> FInt(1)],
      [total_return_score |-> F(9, 10), consistency_score |-> F(9, 10),
       financial_strength_score |-> F(9, 10), dividend_bonus |-> FInt(0),
       sharpe_ratio_score |-> F(9, 10), max_drawdown_score |-> F(9, 10)],
      [total_return_score |-> F(15, 100), consistency_score |-> F(4, 10),
       financial_strength_score |-> FInt(0), dividend_bonus |-> FInt(0),
       sharpe_ratio_score |-> FInt(0), max_drawdown_score |-> FInt(0)] }

\* What yahoo.get_analyst_data returns.
AnalystData ==
    { None,
      [recommendation_score |-> F(9, 10), upside_pct |-> FInt(16)],
      [recommendation_score |-> FInt(1), upside_pct |-> FInt(30)],
      [recommendation_score |-> FInt(0), upside_pct |-> FInt(-30)] }

ScoreInputs ==
    [monthly_len : {12, 24, 61},
     quality_components : QualityComponents,
     opportunity : {None} \cup {OpportunityWith(t) : t \in {F(9, 10), FInt(1)}},
     analyst_data : AnalystData,
     portfolio_context : {None, [total_value |-> 1000]},
     geography : {NoString, "", "EU"},
     fit_total : {FInt(0), FInt(1)},
     daily_len : {10, 30},
     daily_volatility : {F(2, 10)}]

ScoreIdle ==
    /\ sc_pc = "idle"
    /\ score_input = None
    /\ quality = None
    /\ opportunity = None
    /\ analyst = None
    /\ allocation_fit = None
    /\ total_score = None
    /\ calculated = None

(***************************************************************************)
(* Rebalancing Selector: calculate_rebalance_trades and what it calls.     *)
(***************************************************************************)
\* x or y for an optional float x: None and 0.0 are falsy.
PyOr(x, y) == IF IsNone(x) THEN y ELSE IF FIsZero(x) THEN y ELSE x

\* Rows of stock_repo.get_with_scores(), with the allocation-fit total that
\* calculate_allocation_fit_score gives and the price yahoo returns for the
\* symbol. An absent value is None; min_lot, an int, is <<n>> when present.
StockRows ==
    { [symbol |-> "HIGH", quality_score |-> FInt(1), opportunity_score |-> FInt(1),
       analyst_score |-> FInt(1), fit_total |-> FInt(1),
       priority_multiplier |-> None, min_lot |-> None, volatility |-> None,
       price |-> F(616, 100)],
      [symbol |-> "LOTS", quality_score |-> F(9, 10), opportunity_score |-> F(8, 10),
       analyst_score |-> None, fit_total |-> F(5, 10),
       priority_multiplier |-> FInt(2), min_lot |-> <<10>>, volatility |-> F(35, 100),
       price |-> F(1275, 100)],
      [symbol |-> "NOPX", quality_score |-> F(8, 10), opportunity_score |-> F(8, 10),
       analyst_score |-> F(5, 10), fit_total |-> F(5, 10),
       priority_multiplier |-> FInt(2), min_lot |-> None, volatility |-> F(15, 100),
       price |-> None],
      [symbol |-> "BIGL", quality_score |-> F(8, 10), opportunity_score |-> FInt(1),
       analyst_score |-> F(5, 10), fit_total |-> F(5, 10),
       priority_multiplier |-> None, min_lot |-> <<100>>, volatility |-> None,
       price |-> FInt(50)],
      [symbol |-> "WEAK", quality_score |-> None, opportunity_score |-> None,
       analyst_score |-> None, fit_total |-> FInt(0),
       priority_multiplier |-> None, min_lot |-> None, volatility |-> None,
       price |-> FInt(10)],
      [symbol |-> "TIED", quality_score |-> FInt(1), opportunity_score |-> FInt(1),
       analyst_score |-> FInt(1), fit_total |-> FInt(1),
       priority_multiplier |-> None, min_lot |-> <<3>>, volatility |-> FInt(0),
       price |-> F(1505, 100)] }

Universes ==
    {u \in UNION {SeqsOver(StockRows, n) : n \in 0..MaxStocks} : NoRepeat(u)}

\* app.config.settings
SettingsValues ==
    { [min_cash_threshold |-> FInt(400), min_trade_size |-> FInt(400),
       max_trades_per_cycle |-> 5, min_stock_score |-> F(5, 10)],
      [min_cash_threshold |-> FInt(100), min_trade_size |-> FInt(400),
       max_trades_per_cycle |-> 2, min_stock_score |-> F(5, 10)] }

CashValues == {FInt(300), FInt(400), FInt(900), FInt(1000), F(39732, 10)}

GetMaxTradesAtLeastOne(cash, cfg) ==
    Max(1, Min(cfg.max_trades_per_cycle, FToInt(FDiv(cash, cfg.min_trade_size))))

\* get_max_trades(cash)
GetMaxTrades(cash, cfg) ==
    IF FLt(cash, cfg.min_trade_size) THEN 0
    ELSE Min(cfg.max_trades_per_cycle, FToInt(FDiv(cash, cfg.min_trade_size)))

\* stock.get("quality_score") or stock.get("total_score") or 0
RowQualityScore(stock) == PyOr(stock.quality_score, FInt(0))

\* stock.get("opportunity_score") or stock.get("fundamental_score") or 0.5
RowOpportunityScore(stock) == PyOr(stock.opportunity_score, F(5, 10))

\* stock.get("analyst_score") or 0.5
RowAnalystScore(stock) == PyOr(stock.analyst_score, F(5, 10))

\* quality*0.35 + opportunity*0.35 + analyst*0.15 + allocation_fit.total*0.15
FinalScore(stock) ==
    FAdd(FAdd(FAdd(FMul(RowQualityScore(stock), F(35, 100)),
                   FMul(RowOpportunityScore(stock), F(35, 100))),
              FMul(RowAnalystScore(stock), F(15, 100))),
         FMul(stock.fit_total, F(15, 100)))

\* PriorityInput built for a qualifying stock.
PriorityInput(stock) ==
    [symbol |-> stock.symbol,
     stock_score |-> FinalScore(stock),
     volatility |-> stock.volatility,
     multiplier |-> PyOr(stock.priority_multiplier, FInt(1)),
     quality_score |-> RowQualityScore(stock),
     opportunity_score |-> RowOpportunityScore(stock),
     allocation_fit_score |-> stock.fit_total]

RECURSIVE BuildPriorityInputs(_, _)
\* The loop over stocks_data: stocks below min_stock_score are skipped.
BuildPriorityInputs(stocks, cfg) ==
    IF stocks = <<>> THEN <<>>
    ELSE (IF FLt(FinalScore(Head(stocks)), cfg.min_stock_score) THEN <<>>
          ELSE <<PriorityInput(Head(stocks))>>)
         \o BuildPriorityInputs(Tail(stocks), cfg)

\* stock_metadata[symbol]["min_lot"]: stock.get("min_lot") or 1
MinLotOf(stocks, symbol) ==
    LET row == CHOOSE r \in {stocks[i] : i \in 1..Len(stocks)} : r.symbol = symbol
    IN IF IsNone(row.min_lot) THEN 1 ELSE IF row.min_lot[1] = 0 THEN 1 ELSE row.min_lot[1]

\* yahoo.get_current_price(symbol, yahoo_symbol)
CurrentPrice(stocks, symbol) ==
    LET row == CHOOSE r \in {stocks[i] : i \in 1..Len(stocks)} : r.symbol = symbol
    IN row.price

\* PriorityCalculator: combined_priority = stock_score * multiplier.
WithCombinedPriority(input) ==
    input @@ [combined_priority |-> FMul(input.stock_score, input.multiplier)]

RECURSIVE InsertByPriority(_, _)
\* Insert after every element of an equal or higher combined_priority.
InsertByPriority(sorted, x) ==
    IF sorted = <<>> THEN <<x>>
    ELSE IF FLt(Head(sorted).combined_priority, x.combined_priority)
         THEN <<x>> \o sorted
         ELSE <<Head(sorted)>> \o InsertByPriority(Tail(sorted), x)

RECURSIVE SortByPriority(_, _)
SortByPriority(sorted, rest) ==
    IF rest = <<>> THEN sorted
    ELSE SortByPriority(InsertByPriority(sorted, Head(rest)), Tail(rest))

\* The priorities in input order.
CalculatePrioritiesUnsorted(inputs) ==
    [i \in 1..Len(inputs) |-> WithCombinedPriority(inputs[i])]

\* PriorityCalculator.calculate_priorities: stable, descending.
CalculatePriorities(inputs) ==
    SortByPriority(<<>>, [i \in 1..Len(inputs) |-> WithCombinedPriority(inputs[i])])

TopNUnbounded(results, n) == results

\* priority_results[:max_trades]
TopN(results, n) == SubSeq(results, 1, Min(n, Len(results)))

InvestAmountUncapped(dynamic_size, remaining) == dynamic_size

\* min(dynamic_size, remaining_cash)
InvestAmount(dynamic_size, remaining) == FMin(dynamic_size, remaining)

ShareQuantity(invest_amount, price, min_lot) == FToInt(FDiv(invest_amount, price))

\* num_lots = int(invest_amount / lot_cost); qty = num_lots * min_lot
LotQuantity(invest_amount, price, min_lot) ==
    FToInt(FDiv(invest_amount, FMul(FInt(min_lot), price))) * min_lot

\* The amounts of one pass of the allocation loop, from the live price, the
\* lot size and the dynamic size of the candidate.
SizingOf(price, min_lot, dynamic_size, remaining) ==
    [price |-> price, min_lot |-> min_lot, dynamic_size |-> dynamic_size,
     invest_amount |-> InvestAmount(dynamic_size, remaining)]

Sizing(result, stocks, base, remaining, cfg) ==
    SizingOf(CurrentPrice(stocks, result.symbol), MinLotOf(stocks, result.symbol),
             CalculatePositionSize(result, base, cfg.min_trade_size), remaining)

\* Why the loop body ends in "continue" for a candidate sized z, or "none".
SkipReasonOf(z, cfg) ==
    IF IsNone(z.price) THEN "no_price"
    ELSE IF FLe(z.price, FInt(0)) THEN "no_price"
    ELSE IF FLt(z.invest_amount, cfg.min_trade_size) THEN "below_min_trade"
    ELSE IF FLt(z.invest_amount, FMul(FInt(z.min_lot), z.price)) THEN "lot_too_big"
    ELSE IF LotQuantity(z.invest_amount, z.price, z.min_lot) <= 0 THEN "no_quantity"
    ELSE "none"

SkipReason(result, stocks, base, remaining, cfg) ==
    SkipReasonOf(Sizing(result, stocks, base, remaining, cfg), cfg)

\* actual_value = qty * price
ActualValueOf(qty, price) == FMul(FInt(qty), price)

\* TradeRecommendation(symbol, side=BUY, quantity=qty,
\* estimated_price=round(price, 2), estimated_value=round(actual_value, 2))
TradeRecommendationOf(symbol, qty, price) ==
    [symbol |-> symbol, side |-> "BUY", quantity |-> qty,
     estimated_price |-> FRoundDigits(price, 100),
     estimated_value |-> FRoundDigits(ActualValueOf(qty, price), 100)]

\* What a pass that buys appends and spends.
PurchaseOf(symbol, qty, price) ==
    [recommendation |-> TradeRecommendationOf(symbol, qty, price),
     actual_value |-> ActualValueOf(qty, price)]

PurchaseSized(symbol, z) ==
    PurchaseOf(symbol, LotQuantity(z.invest_amount, z.price, z.min_lot), z.price)

Purchase(result, stocks, base, remaining, cfg) ==
    PurchaseSized(result.symbol, Sizing(result, stocks, base, remaining, cfg))

RebIdle ==
    /\ rb_pc = "idle"
    /\ available_cash = None
    /\ settings = None
    /\ stocks_data = <<>>
    /\ max_trades = 0
    /\ priority_inputs = <<>>
    /\ selected = <<>>
    /\ base_trade_size = None
    /\ remaining_cash = None
    /\ next_candidate = 0
    /\ recommendations = <<>>
    /\ rb_reads = {}

(***************************************************************************)
(* The locked jobs of app.jobs: refresh_all_scores, sync_historical_data   *)
(* and sync_cash_flows, each `async with file_lock(name, timeout)` around  *)
(* its cycle body.  app.infrastructure.locking is not part of the sources: *)
(* file_lock is an exclusive lock per name whose acquisition either        *)
(* succeeds or, the lock staying held for the timeout, raises.             *)
(***************************************************************************)
JobNames == {"score_refresh", "historical_data_sync", "cash_flow_sync"}

Triggers == 1..MaxTriggers

\* file_lock.__aenter__ succeeding for trigger t.
Acquired(l, job, t) == [l EXCEPT ![job] = t]

\* file_lock.__aexit__.
Released(l, job) == [l EXCEPT ![job] = 0]

\* __aexit__ skipped when the body raised
AsyncWithExitOnReturnOnly(l, job, exc) ==
    IF exc = NoString THEN Released(l, job) ELSE l

\* Leaving the `async with` block: __aexit__ runs whether the body returned
\* (exc = NoString) or raised.
AsyncWithExit(l, job, exc) == Released(l, job)

\* What the cycle body does before its first await.
BodyPrologue(job) ==
    CASE job = "score_refresh" ->
            [events |-> <<"SCORE_REFRESH_START", "PROCESSING_START">>,
             log |-> <<"info">>]
      [] job = "historical_data_sync" ->
            [events |-> <<>>, log |-> <<"info">>]
      [] job = "cash_flow_sync" ->
            [events |-> <<"CASH_FLOW_SYNC_START">>, log |-> <<"info">>]

\* The ways the rest of the cycle body can go.  "cancelled" is an
\* asyncio.CancelledError, which no `except Exception` catches.
BodyOutcomes(job) ==
    CASE job = "score_refresh" -> {"no_stocks", "ok", "error", "cancelled"}
      [] job = "historical_data_sync" -> {"ok", "error", "cancelled"}
      [] job = "cash_flow_sync" ->
            {"no_connection", "no_transactions", "ok", "error", "cancelled"}

\* _refresh_all_scores_internal after its prologue.
ScoreRefreshBody(outcome) ==
    CASE outcome = "no_stocks" ->
            [events |-> <<"PROCESSING_END", "SCORE_REFRESH_COMPLETE">>,
             log |-> <<"info">>, exc |-> NoString]
      [] outcome = "ok" ->
            [events |-> <<"PROCESSING_END", "SCORE_REFRESH_COMPLETE">>,
             log |-> <<"info">>, exc |-> NoString]
      [] outcome = "error" ->
            [events |-> <<"PROCESSING_END", "ERROR_OCCURRED">>,
             log |-> <<"error">>, exc |-> NoString]
      [] outcome = "cancelled" ->
            [events |-> <<>>, log |-> <<>>, exc |-> "CancelledError"]

\* _sync_historical_data_internal after its prologue.
HistoricalSyncBody(outcome) ==
    CASE outcome = "ok" ->
            [events |-> <<>>, log |-> <<"info">>, exc |-> NoString]
      [] outcome = "error" ->
            [events |-> <<>>, log |-> <<"error">>, exc |-> "Exception"]
      [] outcome = "cancelled" ->
            [events |-> <<>>, log |-> <<>>, exc |-> "CancelledError"]

\* _sync_cash_flows_internal after its prologue.
CashFlowSyncBody(outcome) ==
    CASE outcome = "no_connection" ->
            [events |-> <<"ERROR_OCCURRED">>, log |-> <<"warning">>,
             exc |-> NoString]
      [] outcome = "no_transactions" ->
            [events |-> <<>>, log |-> <<"info">>, exc |-> NoString]
      [] outcome = "ok" ->
            [events |-> <<"CASH_FLOW_SYNC_COMPLETE">>, log |-> <<"info">>,
             exc |-> NoString]
      [] outcome = "error" ->
            [events |-> <<"ERROR_OCCURRED">>, log |-> <<"error">>,
             exc |-> NoString]
      [] outcome = "cancelled" ->
            [events |-> <<>>, log |-> <<>>, exc |-> "CancelledError"]

Body(job, outcome) ==
    CASE job = "score_refresh" -> ScoreRefreshBody(outcome)
      [] job = "historical_data_sync" -> HistoricalSyncBody(outcome)
      [] job = "cash_flow_sync" -> CashFlowSyncBody(outcome)

JobsIdle ==
    /\ locks = [j \in JobNames |-> 0]
    /\ job_pc = [t \in Triggers |-> "idle"]
    /\ job_of = [t \in Triggers |-> NoString]
    /\ job_waited = [t \in Triggers |-> FALSE]
    /\ job_events = [t \in Triggers |-> <<>>]
    /\ job_log = [t \in Triggers |-> <<>>]
    /\ job_raised = [t \in Triggers |-> NoString]

(***************************************************************************)
(* _refresh_all_scores_internal: the pass over the active securities.      *)
(***************************************************************************)
\* How the loop body can go for one row.
RowOutcomes ==
    {"fetch_error", "insufficient_daily", "insufficient_monthly",
     "score_error", "no_score", "insert_error", "scored"}

\* Outcomes that raise inside the per-row try block.
RowFailures == {"fetch_error", "score_error", "insert_error"}

\* Versions the tables can reach by writers outside the pass.
DbVersions == 0..1

\* What the loop body logs for a row.
RowLog(outcome) ==
    CASE outcome \in RowFailures -> <<"info", "error">>
      [] outcome \in {"insufficient_daily", "insufficient_monthly"} ->
            <<"info", "warning">>
      [] OTHER -> <<"info">>

RefreshIdle ==
    /\ rf_pc = "idle"
    /\ rf_n = 0
    /\ rf_outcomes = <<>>
    /\ rf_db_version = 0
    /\ rf_context = None
    /\ rf_passed = <<>>
    /\ rf_pending = {}
    /\ rf_committed = {}
    /\ rf_events = <<>>
    /\ rf_log = <<>>

(***************************************************************************)
(* Quality score components: app/domain/scoring/quality.py.  The constants *)
(* of app.domain.scoring.constants are not part of the sources.            *)
(***************************************************************************)
OPTIMAL_CAGR == F(11, 100)

BELL_CURVE_SIGMA_LEFT == F(6, 100)

BELL_CURVE_SIGMA_RIGHT == F(10, 100)

BELL_CURVE_FLOOR == F(15, 100)

HIGH_DIVIDEND_THRESHOLD == F(6, 100)

MID_DIVIDEND_THRESHOLD == F(3, 100)

LOW_DIVIDEND_BONUS == F(3, 100)

MID_DIVIDEND_BONUS == F(7, 100)

HIGH_DIVIDEND_BONUS == F(10, 100)

SHARPE_EXCELLENT == FInt(2)

SHARPE_GOOD == FInt(1)

SHARPE_OK == F(5, 10)

DRAWDOWN_EXCELLENT == F(10, 100)

DRAWDOWN_GOOD == F(20, 100)

DRAWDOWN_OK == F(30, 100)

DRAWDOWN_POOR == F(50, 100)

\* abs(a)
FAbs(a) == [a EXCEPT !.s = 0]

\* Python's `x or d` on an optional number.
OrDefault(x, d) == IF x = None \/ FIsZero(x) THEN d ELSE x

\* math.exp at the arguments the bounded inputs reach: <<z, exp(z)>>.
ExpTable ==
    { <<[s |-> 1, m |-> <<1, 0, 0, 196>>, e |-> -50],
        [s |-> 0, m |-> <<10600, 13318, 11777, 143>>, e |-> -61]>>,
      <<[s |-> 1, m |-> <<3, 0, 0, 144>>, e |-> -50],
        [s |-> 0, m |-> <<17414, 3371, 321, 182>>, e |-> -59]>>,
      <<[s |-> 1, m |-> <<0, 0, 0, 144>>, e |-> -50],
        [s |-> 0, m |-> <<17431, 3371, 321, 182>>, e |-> -59]>>,
      <<[s |-> 1, m |-> <<14565, 18204, 14563, 128>>, e |-> -50],
        [s |-> 0, m |-> <<25801, 7997, 31857, 147>>, e |-> -58]>>,
      <<[s |-> 1, m |-> <<18205, 14563, 18204, 227>>, e |-> -51],
        [s |-> 0, m |-> <<28201, 7502, 281, 234>>, e |-> -58]>>,
      <<[s |-> 1, m |-> <<2, 0, 0, 200>>, e |-> -51],
        [s |-> 0, m |-> <<1142, 13311, 31643, 179>>, e |-> -57]>>,
      <<[s |-> 1, m |-> <<7283, 25486, 7281, 174>>, e |-> -51],
        [s |-> 0, m |-> <<31640, 29092, 20054, 134>>, e |-> -56]>>,
      <<[s |-> 1, m |-> <<7282, 25486, 7281, 150>>, e |-> -51],
        [s |-> 0, m |-> <<18258, 31194, 28158, 195>>, e |-> -56]>>,
      <<[s |-> 1, m |-> <<28836, 5242, 3932, 141>>, e |-> -51],
        [s |-> 0, m |-> <<12689, 16665, 25987, 225>>, e |-> -56]>>,
      <<[s |-> 1, m |-> <<1, 0, 0, 128>>, e |-> -51],
        [s |-> 0, m |-> <<457, 18303, 19114, 138>>, e |-> -55]>>,
      <<[s |-> 1, m |-> <<0, 0, 0, 128>>, e |-> -51],
        [s |-> 0, m |-> <<460, 18303, 19114, 138>>, e |-> -55]>>,
      <<[s |-> 1, m |-> <<3641, 29127, 3640, 215>>, e |-> -52],
        [s |-> 0, m |-> <<27834, 19914, 24279, 190>>, e |-> -55]>>,
      <<[s |-> 1, m |-> <<20974, 15728, 11796, 207>>, e |-> -52],
        [s |-> 0, m |-> <<5828, 14460, 21242, 202>>, e |-> -55]>>,
      <<[s |-> 1, m |-> <<20970, 15728, 11796, 207>>, e |-> -52],
        [s |-> 0, m |-> <<5834, 14460, 21242, 202>>, e |-> -55]>>,
      <<[s |-> 1, m |-> <<1311, 9175, 31457, 184>>, e |-> -52],
        [s |-> 0, m |-> <<24347, 22775, 13237, 241>>, e |-> -55]>>,
      <<[s |-> 1, m |-> <<25488, 7281, 25486, 177>>, e |-> -52],
        [s |-> 0, m |-> <<8711, 24034, 11031, 255>>, e |-> -55]>>,
      <<[s |-> 1, m |-> <<5242, 3932, 27525, 163>>, e |-> -52],
        [s |-> 0, m |-> <<28448, 27713, 11635, 142>>, e |-> -54]>>,
      <<[s |-> 1, m |-> <<1, 0, 0, 144>>, e |-> -52],
        [s |-> 0, m |-> <<11039, 18671, 7276, 166>>, e |-> -54]>>,
      <<[s |-> 1, m |-> <<0, 0, 0, 144>>, e |-> -52],
        [s |-> 0, m |-> <<11040, 18671, 7276, 166>>, e |-> -54]>>,
      <<[s |-> 1, m |-> <<32766, 32767, 32767, 143>>, e |-> -52],
        [s |-> 0, m |-> <<11042, 18671, 7276, 166>>, e |-> -54]>>,
      <<[s |-> 1, m |-> <<3932, 27525, 28835, 250>>, e |-> -53],
        [s |-> 0, m |-> <<8218, 12210, 5219, 192>>, e |-> -54]>>,
      <<[s |-> 1, m |-> <<18205, 14563, 18204, 227>>, e |-> -53],
        [s |-> 0, m |-> <<4545, 22875, 16039, 210>>, e |-> -54]>>,
      <<[s |-> 1, m |-> <<22282, 24903, 10485, 216>>, e |-> -53],
        [s |-> 0, m |-> <<23726, 19106, 30584, 219>>, e |-> -54]>>,
      <<[s |-> 1, m |-> <<22282, 24903, 10485, 184>>, e |-> -53],
        [s |-> 0, m |-> <<3091, 24141, 7115, 249>>, e |-> -54]>>,
      <<[s |-> 1, m |-> <<22281, 24903, 10485, 184>>, e |-> -53],
        [s |-> 0, m |-> <<3092, 24141, 7115, 249>>, e |-> -54]>>,
      <<[s |-> 1, m |-> <<7283, 25486, 7281, 174>>, e |-> -53],
        [s |-> 0, m |-> <<14072, 147, 20379, 129>>, e |-> -53]>>,
      <<[s |-> 1, m |-> <<3931, 27525, 28835, 154>>, e |-> -53],
        [s |-> 0, m |-> <<12066, 9958, 26052, 139>>, e |-> -53]>>,
      <<[s |-> 1, m |-> <<2, 0, 0, 128>>, e |-> -53],
        [s |-> 0, m |-> <<5641, 30943, 8907, 155>>, e |-> -53]>>,
      <<[s |-> 1, m |-> <<0, 0, 0, 128>>, e |-> -53],
        [s |-> 0, m |-> <<5642, 30943, 8907, 155>>, e |-> -53]>>,
      <<[s |-> 1, m |-> <<32764, 32767, 32767, 255>>, e |-> -54],
        [s |-> 0, m |-> <<5643, 30943, 8907, 155>>, e |-> -53]>>,
      <<[s |-> 1, m |-> <<20971, 15728, 11796, 207>>, e |-> -54],
        [s |-> 0, m |-> <<31510, 372, 24447, 170>>, e |-> -53]>>,
      <<[s |-> 1, m |-> <<20970, 15728, 11796, 207>>, e |-> -54],
        [s |-> 0, m |-> <<31511, 372, 24447, 170>>, e |-> -53]>>,
      <<[s |-> 1, m |-> <<20967, 15728, 11796, 207>>, e |-> -54],
        [s |-> 0, m |-> <<31512, 372, 24447, 170>>, e |-> -53]>>,
      <<[s |-> 1, m |-> <<25488, 7281, 25486, 177>>, e |-> -54],
        [s |-> 0, m |-> <<3643, 13003, 29555, 180>>, e |-> -53]>>,
      <<[s |-> 1, m |-> <<5242, 3932, 27525, 163>>, e |-> -54],
        [s |-> 0, m |-> <<7118, 20368, 29299, 185>>, e |-> -53]>>,
      <<[s |-> 1, m |-> <<3932, 27525, 28835, 250>>, e |-> -55],
        [s |-> 0, m |-> <<16211, 18059, 12201, 200>>, e |-> -53]>>,
      <<[s |-> 1, m |-> <<18208, 14563, 18204, 227>>, e |-> -55],
        [s |-> 0, m |-> <<17910, 6029, 32400, 204>>, e |-> -53]>>,
      <<[s |-> 1, m |-> <<18205, 14563, 18204, 227>>, e |-> -55],
        [s |-> 0, m |-> <<17911, 6029, 32400, 204>>, e |-> -53]>>,
      <<[s |-> 1, m |-> <<18202, 14563, 18204, 227>>, e |-> -55],
        [s |-> 0, m |-> <<17911, 6029, 32400, 204>>, e |-> -53]>>,
      <<[s |-> 1, m |-> <<22283, 24903, 10485, 184>>, e |-> -55],
        [s |-> 0, m |-> <<13200, 12373, 27170, 213>>, e |-> -53]>>,
      <<[s |-> 1, m |-> <<22281, 24903, 10485, 184>>, e |-> -55],
        [s |-> 0, m |-> <<13200, 12373, 27170, 213>>, e |-> -53]>>,
      <<[s |-> 1, m |-> <<22278, 24903, 10485, 184>>, e |-> -55],
        [s |-> 0, m |-> <<13201, 12373, 27170, 213>>, e |-> -53]>>,
      <<[s |-> 1, m |-> <<4, 0, 0, 128>>, e |-> -55],
        [s |-> 0, m |-> <<545, 18907, 30120, 225>>, e |-> -53]>>,
      <<[s |-> 1, m |-> <<0, 0, 0, 128>>, e |-> -55],
        [s |-> 0, m |-> <<546, 18907, 30120, 225>>, e |-> -53]>>,
      <<[s |-> 1, m |-> <<5244, 3932, 27525, 163>>, e |-> -56],
        [s |-> 0, m |-> <<18053, 5512, 10413, 236>>, e |-> -53]>>,
      <<[s |-> 1, m |-> <<5242, 3932, 27525, 163>>, e |-> -56],
        [s |-> 0, m |-> <<18053, 5512, 10413, 236>>, e |-> -53]>>,
      <<[s |-> 1, m |-> <<5240, 3932, 27525, 163>>, e |-> -56],
        [s |-> 0, m |-> <<18054, 5512, 10413, 236>>, e |-> -53]>>,
      <<[s |-> 1, m |-> <<18208, 14563, 18204, 227>>, e |-> -57],
        [s |-> 0, m |-> <<31114, 5522, 5427, 242>>, e |-> -53]>>,
      <<[s |-> 1, m |-> <<22286, 24903, 10485, 184>>, e |-> -57],
        [s |-> 0, m |-> <<562, 4066, 24096, 244>>, e |-> -53]>>,
      <<[s |-> 1, m |-> <<22281, 24903, 10485, 184>>, e |-> -57],
        [s |-> 0, m |-> <<563, 4066, 24096, 244>>, e |-> -53]>>,
      <<[s |-> 1, m |-> <<5244, 3932, 27525, 163>>, e |-> -58],
        [s |-> 0, m |-> <<27739, 14171, 30502, 250>>, e |-> -53]>>,
      <<[s |-> 1, m |-> <<18196, 14563, 18204, 227>>, e |-> -59],
        [s |-> 0, m |-> <<27681, 29791, 15368, 252>>, e |-> -53]>>,
      <<[s |-> 1, m |-> <<5236, 3932, 27525, 163>>, e |-> -60],
        [s |-> 0, m |-> <<21131, 21071, 23697, 254>>, e |-> -53]>> }

\* math.exp(z)
Exp(z) ==
    IF FIsZero(z) THEN FInt(1)
    ELSE (CHOOSE p \in ExpTable : p[1] = z)[2]

\* BELL_CURVE_SIGMA_LEFT if total_return < peak else BELL_CURVE_SIGMA_RIGHT
BellSigmaAlwaysRight(total_return, peak) == BELL_CURVE_SIGMA_RIGHT

BellSigma(total_return, peak) ==
    IF FLt(total_return, peak) THEN BELL_CURVE_SIGMA_LEFT
    ELSE BELL_CURVE_SIGMA_RIGHT

\* -((total_return - peak) ** 2) / (2 * sigma ** 2)
BellExponent(total_return, peak, sigma) ==
    FDiv(FNeg(FMul(FSub(total_return, peak), FSub(total_return, peak))),
         FMul(FInt(2), FMul(sigma, sigma)))

\* BELL_CURVE_FLOOR + raw_score * (1 - BELL_CURVE_FLOOR)
BellScore(raw_score) ==
    FAdd(BELL_CURVE_FLOOR, FMul(raw_score, FSub(FInt(1), BELL_CURVE_FLOOR)))

score_total_return(total_return, target_annual_return) ==
    IF FLe(total_return, FZero) THEN BELL_CURVE_FLOOR
    ELSE BellScore(Exp(BellExponent(total_return, target_annual_return,
                                    BellSigma(total_return,
                                              target_annual_return))))

calculate_dividend_bonus(dividend_yield) ==
    IF dividend_yield = None \/ FLe(dividend_yield, FZero) THEN FZero
    ELSE IF FLe(HIGH_DIVIDEND_THRESHOLD, dividend_yield)
         THEN HIGH_DIVIDEND_BONUS
    ELSE IF FLe(MID_DIVIDEND_THRESHOLD, dividend_yield)
         THEN MID_DIVIDEND_BONUS
    ELSE LOW_DIVIDEND_BONUS

\* max(0.4, 1.0 - diff * 4) and the two steps before it
ConsistencyOfDiff(diff) ==
    IF FLt(diff, F(2, 100)) THEN FInt(1)
    ELSE IF FLt(diff, F(5, 100)) THEN F(8, 10)
    ELSE FMax(F(4, 10), FSub(FInt(1), FMul(diff, FInt(4))))

calculate_consistency_score(cagr_5y, cagr_10y) ==
    IF cagr_10y = None THEN F(6, 10)
    ELSE ConsistencyOfDiff(FAbs(FSub(cagr_5y, cagr_10y)))

\* margin = fundamentals.profit_margin or 0, and its score
MarginScoreOf(margin) ==
    IF FLe(FZero, margin)
    THEN FMin(FInt(1), FAdd(F(5, 10), FMul(margin, F(25, 10))))
    ELSE FMax(FZero, FAdd(F(5, 10), FMul(margin, FInt(2))))

MarginScore(fundamentals) ==
    MarginScoreOf(OrDefault(fundamentals.profit_margin, FZero))

\* de = min(200, fundamentals.debt_to_equity or 50); max(0, 1 - de / 200)
DebtToEquityScore(fundamentals) ==
    FMax(FZero,
         FSub(FInt(1),
              FDiv(FMin(FInt(200),
                        OrDefault(fundamentals.debt_to_equity, FInt(50))),
                   FInt(200))))

\* cr = min(3, fundamentals.current_ratio or 1); min(1.0, cr / 2)
CurrentRatioScore(fundamentals) ==
    FMin(FInt(1),
         FDiv(FMin(FInt(3), OrDefault(fundamentals.current_ratio, FInt(1))),
              FInt(2)))

calculate_financial_strength_score(fundamentals) ==
    IF fundamentals = None THEN F(5, 10)
    ELSE FAdd(FAdd(FMul(MarginScore(fundamentals), F(40, 100)),
                   FMul(DebtToEquityScore(fundamentals), F(30, 100))),
              FMul(CurrentRatioScore(fundamentals), F(30, 100)))

calculate_sharpe_score(sharpe_ratio) ==
    IF sharpe_ratio = None THEN F(5, 10)
    ELSE IF FLe(SHARPE_EXCELLENT, sharpe_ratio) THEN FInt(1)
    ELSE IF FLe(SHARPE_GOOD, sharpe_ratio)
         THEN FAdd(F(7, 10), FMul(FSub(sharpe_ratio, SHARPE_GOOD), F(3, 10)))
    ELSE IF FLe(SHARPE_OK, sharpe_ratio)
         THEN FAdd(F(4, 10), FMul(FSub(sharpe_ratio, SHARPE_OK), F(6, 10)))
    ELSE IF FLe(FZero, sharpe_ratio) THEN FMul(sharpe_ratio, F(8, 10))
    ELSE FZero

\* dd_pct = abs(max_drawdown), and its score
DrawdownScoreOf(dd_pct) ==
    IF FLe(dd_pct, DRAWDOWN_EXCELLENT) THEN FInt(1)
    ELSE IF FLe(dd_pct, DRAWDOWN_GOOD)
         THEN FAdd(F(8, 10), FMul(FSub(DRAWDOWN_GOOD, dd_pct), FInt(2)))
    ELSE IF FLe(dd_pct, DRAWDOWN_OK)
         THEN FAdd(F(6, 10), FMul(FSub(DRAWDOWN_OK, dd_pct), FInt(2)))
    ELSE IF FLe(dd_pct, DRAWDOWN_POOR)
         THEN FAdd(F(2, 10), FMul(FSub(DRAWDOWN_POOR, dd_pct), FInt(2)))
    ELSE FMax(FZero, FSub(F(2, 10), FSub(dd_pct, DRAWDOWN_POOR)))

calculate_drawdown_score(max_drawdown) ==
    IF max_drawdown = None THEN F(5, 10)
    ELSE DrawdownScoreOf(FAbs(max_drawdown))

\* fundamentals.dividend_yield if fundamentals else None
DividendYieldOf(fundamentals) ==
    IF fundamentals = None THEN None ELSE fundamentals.dividend_yield

\* (cagr_5y or 0) + (dividend_yield or 0)
TotalReturnOf(in) ==
    FAdd(OrDefault(in.cagr_5y, FZero),
         OrDefault(DividendYieldOf(in.fundamentals), FZero))

\* Lines 309-314: the component scores.
QualityComponentScores(in) ==
    [total_return_score |->
        score_total_return(TotalReturnOf(in), in.target_annual_return),
     consistency_score |->
        calculate_consistency_score(OrDefault(in.cagr_5y, FZero), in.cagr_10y),
     financial_strength_score |->
        calculate_financial_strength_score(in.fundamentals),
     dividend_bonus |->
        calculate_dividend_bonus(DividendYieldOf(in.fundamentals)),
     sharpe_ratio_score |-> calculate_sharpe_score(in.sharpe_ratio),
     max_drawdown_score |-> calculate_drawdown_score(in.max_drawdown)]

Fundamentals(pm, de, cr, dy) ==
    [profit_margin |-> pm, debt_to_equity |-> de, current_ratio |-> cr,
     dividend_yield |-> dy]

ProfitMargins == {None, FZero, F(2, 10), F(-1, 10)}

DebtToEquities ==
    {None, FZero, FInt(10), FInt(50), FInt(200), FInt(300), FInt(-100)}

CurrentRatios ==
    {None, FZero, F(1, 2), FInt(1), FInt(2), F(5, 2), FInt(3), FInt(4)}

DividendYields ==
    {None, FZero, F(-1, 100), F(2, 100), F(3, 100), F(6, 100), F(9, 100)}

Cagrs == {None, F(-5, 100), FZero, F(5, 100), F(11, 100), F(2, 10)}

TargetReturns == {F(11, 100), F(8, 100)}

\* <<len(monthly_prices), cagr_10y>>: cagr_10y needs more than 60 months.
Histories == {<<23, None>>, <<36, None>>, <<72, F(4, 100)>>, <<72, F(1, 10)>>}

\* <<sharpe_ratio, max_drawdown>>: both None with fewer than 50 daily prices.
RiskMetrics ==
    {<<None, None>>} \cup
    ({FInt(-1), F(25, 100), F(75, 100), F(15, 10), F(25, 10)} \X
     {FZero, F(-5, 100), F(-15, 100), F(-25, 100), F(-4, 10), F(-6, 10),
      F(-15, 10)})

QualityInput(h, cagr_5y, fundamentals, risk, target) ==
    [monthly_len |-> h[1], cagr_5y |-> cagr_5y, cagr_10y |-> h[2],
     fundamentals |-> fundamentals, sharpe_ratio |-> risk[1],
     max_drawdown |-> risk[2], target_annual_return |-> target]

\* Every fundamentals record over one history, every return over every
\* dividend yield, and every pair of risk metrics.
QualityInputs ==
    {QualityInput(<<36, None>>, F(11, 100), f, <<None, None>>, OPTIMAL_CAGR) :
        f \in {None} \cup {Fundamentals(x[1], x[2], x[3], None) :
                            x \in ProfitMargins \X DebtToEquities
                                    \X CurrentRatios}}
    \cup
    {QualityInput(x[1], x[2], Fundamentals(None, None, None, x[3]),
                  <<None, None>>, x[4]) :
        x \in Histories \X Cagrs \X DividendYields \X TargetReturns}
    \cup
    {QualityInput(<<36, None>>, F(5, 100), None, r, OPTIMAL_CAGR) :
        r \in RiskMetrics}

QualityIdle ==
    /\ q_pc = "idle"
    /\ q_in = None
    /\ q_raw = None
    /\ q_out = None

(***************************************************************************)
(* _reconstruct_portfolio_history: daily snapshots rebuilt from the trades *)
(* and the cash flows.  Dates are day numbers; the amounts are whole       *)
(* numbers, on which the float arithmetic of the code is exact.            *)
(***************************************************************************)
\* Last day of the calendar.
MaxDay == 4

\* Most rows in the trades table.
MaxHistTrades == 3

HistDays == 1..MaxDay

\* datetime(2010, 1, 1).date()
Epoch2010 == 2

\* datetime.now().date()
Today == MaxDay - 1

\* An executed_at text that neither fromisoformat nor strptime accepts.
BadDate == 0

HistSymbols == {"AAA", "BBB"}

Trade(symbol, side, quantity, price, executed_at) ==
    [symbol |-> symbol, side |-> side, quantity |-> quantity,
     price |-> price, executed_at |-> executed_at]

TradeRows ==
    {Trade("AAA", "BUY", 3, 10, 1),
     Trade("BBB", "BUY", 1, 20, Today),
     Trade("AAA", "SELL", 1, 30, Today),
     Trade("AAA", "SELL", 1, 30, MaxDay),
     Trade("AAA", "BUY", 1, 10, BadDate)}

\* ORDER BY executed_at ASC: the parsable dates ascend, rows of one date
\* come in any order, and a malformed text sorts wherever its text falls.
TradeTables ==
    {t \in ListsUpTo(TradeRows, MaxHistTrades) :
        \A i, j \in 1..Len(t) :
            (i < j /\ t[i].executed_at # BadDate /\ t[j].executed_at # BadDate)
                => t[i].executed_at <= t[j].executed_at}

CashFlow(date, amount_eur, status, status_c) ==
    [date |-> date, amount_eur |-> amount_eur, status |-> status,
     status_c |-> status_c]

CashFlowRowValues ==
    {CashFlow(1, 50, "completed", 3),
     CashFlow(Today - 1, 100, "completed", 3),
     CashFlow(Today - 1, 7, "processed", 3),
     CashFlow(Today, 1000, "pending", 1)}

\* A snapshot row written before this run (by the daily sync).
ExistingSnapshot(d) == [total_value |-> 500 + 10 * d,
                        cash_balance |-> 500 + 10 * d]

\* Tables of snapshots that can exist when the run starts.
SnapshotTables ==
    {[d \in D |-> ExistingSnapshot(d)] : D \in SUBSET (1..Today)}

\* Table stock_price_history: close prices by <<symbol, date>>.
PriceHistory == [k \in {<<"AAA", 1>>, <<"AAA", Today>>} |->
                    IF k[2] = 1 THEN 10 ELSE 12]

RECURSIVE SumAmounts(_)
SumAmounts(rows) ==
    IF rows = {} THEN 0
    ELSE LET r == CHOOSE x \in rows : TRUE
         IN r.amount_eur + SumAmounts(rows \ {r})

\* _get_cash_flows: the completed rows, summed by date.
GetCashFlows(rows) ==
    LET done == {r \in rows : r.status = "completed" \/ r.status_c = 3}
    IN [d \in {r.date : r \in done} |->
            SumAmounts({r \in done : r.date = d})]

RECURSIVE TotalBuys(_, _)
\* SUM(CASE WHEN side = 'BUY' THEN quantity * price ELSE 0 END)
TotalBuys(trs, i) ==
    IF i > Len(trs) THEN 0
    ELSE (IF trs[i].side = "BUY" THEN trs[i].quantity * trs[i].price ELSE 0)
         + TotalBuys(trs, i + 1)

\* _get_initial_cash_balance
GetInitialCashBalance(snaps, trs) ==
    IF DOMAIN snaps # {}
    THEN snaps[CHOOSE d \in DOMAIN snaps : \A e \in DOMAIN snaps : d <= e]
            .cash_balance
    ELSE IF TotalBuys(trs, 1) # 0 THEN TotalBuys(trs, 1) * 2
    ELSE 0

\* _get_historical_price: <<price>> or None.
GetHistoricalPrice(symbol, date) ==
    IF <<symbol, date>> \in DOMAIN PriceHistory
    THEN <<PriceHistory[<<symbol, date>>]>> ELSE None

\* _get_most_recent_price: <<price>> or None.
GetMostRecentPrice(symbol, date) ==
    LET before == {k \in DOMAIN PriceHistory : k[1] = symbol /\ k[2] < date}
    IN IF before = {} THEN None
       ELSE <<PriceHistory[CHOOSE k \in before :
                                \A o \in before : o[2] <= k[2]]>>

\* Lines 303-311: the price used for a position on a date.
PositionPrice(symbol, date) ==
    IF ~IsNone(GetHistoricalPrice(symbol, date))
    THEN GetHistoricalPrice(symbol, date)
    ELSE GetMostRecentPrice(symbol, date)

RECURSIVE PositionsValue(_, _, _)
\* Lines 297-314: the value of the positions held and priced.
PositionsValue(pos, symbols, date) ==
    IF symbols = {} THEN 0
    ELSE LET s == CHOOSE x \in symbols : TRUE
         IN (IF pos[s] <= 0 \/ IsNone(PositionPrice(s, date)) THEN 0
             ELSE pos[s] * PositionPrice(s, date)[1])
            + PositionsValue(pos, symbols \ {s}, date)

\* Lines 273-285: one trade applied to the positions and the cash.
ApplyTrade(st, trade) ==
    LET amount == trade.quantity * trade.price
        next == [st EXCEPT !.trade_index = @ + 1,
                           !.applied = Append(@, st.trade_index + 1)]
    IN IF trade.side = "BUY"
       THEN [next EXCEPT !.positions[trade.symbol] = @ + trade.quantity,
                         !.cash_balance = @ - amount]
       ELSE IF trade.side = "SELL"
       THEN [next EXCEPT !.positions[trade.symbol] = @ - trade.quantity,
                         !.cash_balance = @ + amount]
       ELSE next

RECURSIVE ApplyTradesUpTo(_, _, _)
\* Lines 257-287: the trades not yet applied and dated up to date.  A row
\* whose date does not parse is passed over.
ApplyTradesUpTo(trs, st, date) ==
    IF st.trade_index >= Len(trs) THEN st
    ELSE IF trs[st.trade_index + 1].executed_at = BadDate
    THEN ApplyTradesUpTo(trs, [st EXCEPT !.trade_index = @ + 1], date)
    ELSE IF trs[st.trade_index + 1].executed_at > date THEN st
    ELSE ApplyTradesUpTo(trs, ApplyTrade(st, trs[st.trade_index + 1]), date)

\* Lines 289-291: the cash flow of the date, if it has one.
CashFlowOn(flows, date) == IF date \in DOMAIN flows THEN flows[date] ELSE 0

HistIdle ==
    /\ hs_pc = "idle"
    /\ trades = <<>>
    /\ cash_flow_rows = {}
    /\ portfolio_snapshots = <<>>
    /\ start_date = 0
    /\ end_date = 0
    /\ existing_snapshots = {}
    /\ cash_flows = <<>>
    /\ initial_cash = 0
    /\ current_date = 0
    /\ positions = <<>>
    /\ cash_balance = 0
    /\ trade_index = 0
    /\ processed = 0
    /\ hs_applied = <<>>

(***************************************************************************)
(* generate_sequences_batched as a state machine.                          *)
(***************************************************************************)
GenIdle ==
    /\ g_pc = "none"
    /\ request = [batch_size |-> 0]
    /\ all_sequences = <<>>
    /\ feasible_sequences = <<>>
    /\ total_batches = 0
    /\ batch_number = 0
    /\ pydantic_built = {}
    /\ delivered = <<>>
    /\ restarted = FALSE

\* The caller makes the async generator object; its body has not run.
Call(req) ==
    /\ g_pc \in {"none", "done", "closed"}
    /\ g_pc' = "created"
    /\ request' = req
    /\ all_sequences' = <<>>
    /\ feasible_sequences' = <<>>
    /\ total_batches' = 0
    /\ batch_number' = 0
    /\ pydantic_built' = {}
    /\ delivered' = <<>>
    /\ restarted' = (g_pc = "closed")
    /\ UNCHANGED gen_frame

\* First __anext__: convert the opportunities and await the planner.
Generate ==
    /\ g_pc = "created"
    /\ \E seqs \in GenerateActionSequences(DomainOpportunities(request),
                                           request.max_depth) :
          all_sequences' = seqs
    /\ g_pc' = "generated"
    /\ UNCHANGED <<request, feasible_sequences, total_batches, batch_number,
                   pydantic_built, delivered, restarted>>
    /\ UNCHANGED gen_frame

\* Filter everything, fix total_batches, enter the loop.
Filter ==
    /\ g_pc = "generated"
    /\ feasible_sequences' = ApplyFeasibilityFilter(all_sequences, request.feasibility)
    /\ total_batches' = TotalBatches(Len(feasible_sequences'), request.batch_size)
    /\ batch_number' = 0
    /\ g_pc' = "loop"
    /\ UNCHANGED <<request, all_sequences, pydantic_built, delivered, restarted>>
    /\ UNCHANGED gen_frame

\* One pass of the loop body, up to the yield.
YieldBatch ==
    /\ g_pc = "loop"
    /\ pydantic_built' = pydantic_built \cup BuiltInLoopBody(batch_number, total_batches)
    /\ delivered' = Append(delivered,
                           SequenceBatch(batch_number, feasible_sequences,
                                         request.batch_size, total_batches))
    /\ g_pc' = "yielded"
    /\ UNCHANGED <<request, all_sequences, feasible_sequences, total_batches,
                   batch_number, restarted>>
    /\ UNCHANGED gen_frame

\* The consumer asks for the next batch: the loop advances or ends.
Resume ==
    /\ g_pc = "yielded"
    /\ batch_number' = batch_number + 1
    /\ g_pc' = IF batch_number + 1 < total_batches THEN "loop" ELSE "done"
    /\ UNCHANGED <<request, all_sequences, feasible_sequences, total_batches,
                   pydantic_built, delivered, restarted>>
    /\ UNCHANGED gen_frame

\* The consumer stops reading: the generator is closed at its yield.
StopReading ==
    /\ g_pc = "yielded"
    /\ g_pc' = "closed"
    /\ UNCHANGED <<request, all_sequences, feasible_sequences, total_batches,
                   batch_number, pydantic_built, delivered, restarted>>
    /\ UNCHANGED gen_frame

GenInit ==
    /\ GenIdle
    /\ SizeIdle
    /\ ScoreIdle
    /\ RebIdle
    /\ JobsIdle
    /\ RefreshIdle
    /\ QualityIdle
    /\ HistIdle

GenNext ==
    \/ \E req \in Requests : Call(req)
    \/ Generate
    \/ Filter
    \/ YieldBatch
    \/ Resume
    \/ StopReading

SpecGen == GenInit /\ [][GenNext]_vars

(***************************************************************************)
(* Claims about the Sequence Generator.  The feasibility test is restated  *)
(* here from its definition in the specification, on the delivered         *)
(* response models, without the filter's operators.                        *)
(***************************************************************************)
RECURSIVE ClaimNetCash(_, _, _)
\* Net cash of the first i actions of a sequence of response models,
\* scaled by PctScale.
ClaimNetCash(seq, f, i) ==
    IF i = 0 THEN 0
    ELSE LET v    == seq[i].value_eur
             cost == PctScale * f.transaction_cost_fixed
                        + v * f.transaction_cost_percent
         IN ClaimNetCash(seq, f, i - 1)
            + (IF seq[i].side = "BUY" THEN PctScale * v + cost
                                      ELSE cost - PctScale * v)

ClaimNet(seq, f) == ClaimNetCash(seq, f, Len(seq))

ClaimMinOk(seq, f) == \A i \in 1..Len(seq) : ~(seq[i].value_eur < f.min_trade_value)

ClaimFeasible(seq, f) ==
    ClaimNet(seq, f) <= PctScale * f.available_cash /\ ClaimMinOk(seq, f)

\* A generated (domain) sequence read as sides and values.
ClaimView(gen) ==
    [k \in 1..Len(gen) |->
        [side |-> gen[k].side.value, value_eur |-> gen[k].value_eur]]

\* The generated sequences, read that way.
ClaimGenerated == [i \in 1..Len(all_sequences) |-> ClaimView(all_sequences[i])]

RECURSIVE ClaimConcat(_, _)
\* The sequences of the first n delivered batches, in order.
ClaimConcat(batches, n) ==
    IF n = 0 THEN <<>> ELSE ClaimConcat(batches, n - 1) \o batches[n].sequences

\* Positions of all_sequences that pass the feasibility test, ascending.
ClaimFeasibleAt == {i \in 1..Len(all_sequences) :
                      ClaimFeasible(ClaimGenerated[i], request.feasibility)}

ClaimRank(i) == Cardinality({j \in ClaimFeasibleAt : j <= i})

\* A delivered sequence is the generated one, whole and in order.
ClaimSameSequence(out, gen) ==
    /\ Len(out) = Len(gen)
    /\ \A k \in 1..Len(gen) :
          /\ out[k].side = gen[k].side.value
          /\ out[k].symbol = gen[k].symbol
          /\ out[k].quantity = gen[k].quantity
          /\ out[k].price = gen[k].price
          /\ out[k].value_eur = gen[k].value_eur

\* C1: every sequence in every yielded SequenceBatch needs no more net cash
\* than feasibility.available_cash, and each of its actions has
\* value_eur >= feasibility.min_trade_value.
C1_EmittedSequencesFeasible ==
    \A b \in 1..Len(delivered) :
        \A s \in 1..Len(delivered[b].sequences) :
            LET seq == delivered[b].sequences[s] IN
            /\ ClaimNet(seq, request.feasibility)
                  <= PctScale * request.feasibility.available_cash
            /\ \A k \in 1..Len(seq) :
                  seq[k].value_eur >= request.feasibility.min_trade_value

\* A non-empty batch was yielded although the planner also produced a
\* sequence that needs too much cash and one with an action below the minimum.
C1_Witness ==
    /\ Len(delivered) >= 1
    /\ Len(delivered[1].sequences) >= 1
    /\ \E i \in 1..Len(all_sequences) :
          ClaimNet(ClaimGenerated[i], request.feasibility)
              > PctScale * request.feasibility.available_cash
    /\ \E i \in 1..Len(all_sequences) :
          /\ ~ClaimMinOk(ClaimGenerated[i], request.feasibility)
          /\ ClaimNet(ClaimGenerated[i], request.feasibility)
                <= PctScale * request.feasibility.available_cash

\* C2: when the stream has ended, the yielded sequences in batch order are
\* exactly the generated sequences that pass the feasibility test, each once,
\* whole and in generation order; net cash equal to available_cash passes and
\* net cash above it by the smallest amount does not.
C2_StreamIsExactlyTheFeasibleSequences ==
    g_pc = "done" =>
        LET out == ClaimConcat(delivered, Len(delivered)) IN
        /\ Len(out) = Cardinality(ClaimFeasibleAt)
        /\ \A i \in ClaimFeasibleAt :
              ClaimSameSequence(out[ClaimRank(i)], all_sequences[i])

\* A finished stream whose input held a sequence needing exactly the
\* available cash (emitted) and one needing the smallest amount more (dropped).
C2_Witness ==
    /\ g_pc = "done"
    /\ \E i \in ClaimFeasibleAt :
          ClaimNet(ClaimGenerated[i], request.feasibility)
              = PctScale * request.feasibility.available_cash
    /\ \E i \in 1..Len(all_sequences) :
          /\ ClaimNet(ClaimGenerated[i], request.feasibility)
                = PctScale * request.feasibility.available_cash + 1
          /\ ClaimMinOk(ClaimGenerated[i], request.feasibility)
    /\ Len(ClaimConcat(delivered, Len(delivered))) >= 1

FirstBatchOfSeveral ==
    /\ g_pc = "yielded"
    /\ Len(delivered) = 1
    /\ delivered[1].more_available

GeneratorCanRun == ENABLED (Generate \/ Filter \/ YieldBatch \/ Resume)

\* C10: once the consumer stops after batch k, no batch after k has been
\* built or converted and the generator takes no further step; every stream,
\* also one started after an abandoned one, numbers its batches from 0.
C10_StopEarlyAndRestart ==
    /\ g_pc = "closed" =>
          /\ Len(delivered) = batch_number + 1
          /\ pydantic_built = 0..batch_number
          /\ ~GeneratorCanRun
    /\ \A i \in 1..Len(delivered) : delivered[i].batch_number = i - 1

\* A call made after an abandoned stream, itself abandoned while more batches
\* were available.
C10_Witness ==
    /\ restarted
    /\ g_pc = "closed"
    /\ delivered[Len(delivered)].more_available

\* The least k with k * b >= n.
ClaimCeil(n, b) == CHOOSE k \in 0..n : k * b >= n /\ (k = 0 \/ (k - 1) * b < n)

\* The number of batches a stream of n feasible sequences has.
ClaimBatchCount(n, b) == IF ClaimCeil(n, b) < 1 THEN 1 ELSE ClaimCeil(n, b)

\* C11: with n feasible sequences and batch size b >= 1 the stream has
\* max(1, ceil(n/b)) batches, numbered 0, 1, 2, ... and all carrying that
\* total_batches; every batch but the last holds b sequences, the last holds
\* 1..b (none only when n = 0), and more_available is true on every batch
\* except the last.
C11_BatchCountSizesAndFlags ==
    LET n     == Cardinality(ClaimFeasibleAt)
        b     == request.batch_size
        total == ClaimBatchCount(n, b)
    IN /\ g_pc = "done" => Len(delivered) = total
       /\ \A i \in 1..Len(delivered) :
             /\ i <= total
             /\ delivered[i].batch_number = i - 1
             /\ delivered[i].total_batches = total
             /\ delivered[i].more_available <=> (i < total)
             /\ i < total => Len(delivered[i].sequences) = b
             /\ i = total =>
                   /\ Len(delivered[i].sequences) <= b
                   /\ Len(delivered[i].sequences) = n - (total - 1) * b
                   /\ (Len(delivered[i].sequences) = 0) <=> (n = 0)

\* A finished stream of three feasible sequences in batches of two: a full
\* batch followed by a last batch of one.
C11_Witness ==
    /\ g_pc = "done"
    /\ request.batch_size = 2
    /\ Cardinality(ClaimFeasibleAt) = 3
    /\ Len(delivered) = 2
    /\ Len(delivered[2].sequences) = 1
    /\ ~delivered[2].more_available

\* A finished stream without any feasible sequence: one empty batch.
C11_EmptyStream ==
    /\ g_pc = "done"
    /\ Len(all_sequences) >= 1
    /\ Cardinality(ClaimFeasibleAt) = 0
    /\ Len(delivered) = 1
    /\ delivered[1].sequences = <<>>

\* transaction_cost_fixed + value x transaction_cost_percent of the k-th
\* action of a generated sequence, scaled by PctScale.
ClaimTransactionCost(gen, k, f) ==
    PctScale * f.transaction_cost_fixed + gen[k].value_eur * f.transaction_cost_percent

RECURSIVE ClaimBuySumByPrice(_, _, _)
\* Sum over the BUY actions among the first k of price x quantity plus the
\* transaction cost.
ClaimBuySumByPrice(gen, k, f) ==
    IF k = 0 THEN 0
    ELSE ClaimBuySumByPrice(gen, k - 1, f)
         + (IF gen[k].side.value = "BUY"
            THEN PctScale * gen[k].price * gen[k].quantity
                    + ClaimTransactionCost(gen, k, f)
            ELSE 0)

RECURSIVE ClaimBuySumByValue(_, _, _)
\* Sum over the BUY actions among the first k of value_eur plus the
\* transaction cost.
ClaimBuySumByValue(gen, k, f) ==
    IF k = 0 THEN 0
    ELSE ClaimBuySumByValue(gen, k - 1, f)
         + (IF gen[k].side.value = "BUY"
            THEN PctScale * gen[k].value_eur + ClaimTransactionCost(gen, k, f)
            ELSE 0)

RECURSIVE ClaimSellSum(_, _, _)
\* Sum over the SELL actions among the first k of value_eur less the
\* transaction cost.
ClaimSellSum(gen, k, f) ==
    IF k = 0 THEN 0
    ELSE ClaimSellSum(gen, k - 1, f)
         + (IF gen[k].side.value = "BUY" THEN 0
            ELSE PctScale * gen[k].value_eur - ClaimTransactionCost(gen, k, f))

\* The feasibility filter has run on the generated sequences.
ClaimFiltered == g_pc \in {"loop", "yielded", "done", "closed"}

\* C17 as stated: for every sequence the filter looked at, cash_required is
\* the sum over its BUY actions of price x quantity + transaction_cost_fixed
\* + value x transaction_cost_percent, and cash_generated the sum over its
\* SELL actions of value - transaction cost, also for an action whose value
\* is not price x quantity.
C17_BuyCostFromPriceTimesQuantity ==
    ClaimFiltered =>
        \A i \in 1..Len(all_sequences) :
            /\ CashRequired(all_sequences[i], request.feasibility)
                  = ClaimBuySumByPrice(all_sequences[i], Len(all_sequences[i]),
                                       request.feasibility)
            /\ CashGenerated(all_sequences[i], request.feasibility)
                  = ClaimSellSum(all_sequences[i], Len(all_sequences[i]),
                                 request.feasibility)

\* C17 amended: cash_required is the sum over the BUY actions of value_eur
\* + transaction_cost_fixed + value_eur x transaction_cost_percent, and
\* cash_generated the sum over the SELL actions of value_eur less that
\* transaction cost; price and quantity do not enter.
C17_BuyCostFromValueEur ==
    ClaimFiltered =>
        \A i \in 1..Len(all_sequences) :
            /\ CashRequired(all_sequences[i], request.feasibility)
                  = ClaimBuySumByValue(all_sequences[i], Len(all_sequences[i]),
                                       request.feasibility)
            /\ CashGenerated(all_sequences[i], request.feasibility)
                  = ClaimSellSum(all_sequences[i], Len(all_sequences[i]),
                                 request.feasibility)

\* The filter has looked at a sequence that sells one security and buys
\* another whose value_eur is not its price x quantity.
C17_Witness ==
    /\ ClaimFiltered
    /\ \E i \in 1..Len(all_sequences) :
          /\ \E k \in 1..Len(all_sequences[i]) :
                /\ all_sequences[i][k].side.value = "BUY"
                /\ all_sequences[i][k].value_eur
                      # all_sequences[i][k].price * all_sequences[i][k].quantity
          /\ \E k \in 1..Len(all_sequences[i]) :
                all_sequences[i][k].side.value = "SELL"

(***************************************************************************)
(* calculate_position_size as a one-call machine, and its claims.          *)
(***************************************************************************)
SizeInit ==
    /\ sz_pc = "input"
    /\ candidate \in SizerCandidates
    /\ base_size \in SizerBaseSizes
    /\ min_size \in SizerMinSizes
    /\ position_size = None
    /\ GenIdle
    /\ ScoreIdle
    /\ RebIdle
    /\ JobsIdle
    /\ RefreshIdle
    /\ QualityIdle
    /\ HistIdle

SizeCompute ==
    /\ sz_pc = "input"
    /\ position_size' = CalculatePositionSize(candidate, base_size, min_size)
    /\ sz_pc' = "done"
    /\ UNCHANGED <<candidate, base_size, min_size>>
    /\ UNCHANGED size_frame

SizeNext == SizeCompute

SpecSize == SizeInit /\ [][SizeNext]_vars

ClaimClamp(x, lo, hi) == IF FLt(x, lo) THEN lo ELSE IF FLt(hi, x) THEN hi ELSE x

ClaimConviction ==
    ClaimClamp(FAdd(F(8, 10), FMul(FSub(candidate.stock_score, F(5, 10)), F(8, 10))),
               F(8, 10), F(12, 10))

ClaimPriority ==
    ClaimClamp(FAdd(F(9, 10), FMul(FDiv(candidate.combined_priority, FInt(3)), F(2, 10))),
               F(9, 10), F(11, 10))

ClaimVolatility ==
    IF candidate.volatility = None THEN FInt(1)
    ELSE LET m == FSub(FInt(1), FMul(FSub(candidate.volatility, F(15, 100)), F(5, 10)))
         IN  IF FLt(m, F(5, 10)) THEN F(5, 10) ELSE m

\* base_size times the three multipliers.
ClaimUnclampedSize ==
    FMul(FMul(FMul(base_size, ClaimConviction), ClaimPriority), ClaimVolatility)

ScoreInit ==
    /\ sc_pc = "input"
    /\ score_input \in ScoreInputs
    /\ quality = None
    /\ opportunity = None
    /\ analyst = None
    /\ allocation_fit = None
    /\ total_score = None
    /\ calculated = None
    /\ GenIdle
    /\ SizeIdle
    /\ RebIdle
    /\ JobsIdle
    /\ RefreshIdle
    /\ QualityIdle
    /\ HistIdle

\* Component scores, allocation fit and the weighted total.
ScoreBlend ==
    /\ sc_pc = "input"
    /\ quality' = CalculateQualityScore(score_input.monthly_len,
                                        score_input.quality_components)
    /\ opportunity' = score_input.opportunity
    /\ analyst' = CalculateAnalystScore(score_input.analyst_data)
    /\ allocation_fit' = AllocationFit(score_input)
    /\ total_score' = WeightedTotal(TotalOrNeutral(quality'),
                                    TotalOrNeutral(opportunity'),
                                    TotalOrNeutral(analyst'),
                                    allocation_fit')
    /\ sc_pc' = "blended"
    /\ UNCHANGED <<score_input, calculated>>
    /\ UNCHANGED score_frame

\* Volatility, default score objects, and the returned CalculatedStockScore.
ScoreReturn ==
    /\ sc_pc = "blended"
    /\ quality' = IF IsNone(quality) THEN DefaultQualityScore ELSE quality
    /\ opportunity' = IF IsNone(opportunity) THEN DefaultOpportunityScore
                      ELSE opportunity
    /\ analyst' = IF IsNone(analyst) THEN DefaultAnalystScore ELSE analyst
    /\ calculated' =
          [quality |-> quality',
           opportunity |-> opportunity',
           analyst |-> analyst',
           allocation_fit |-> allocation_fit,
           total_score |-> Round3(total_score),
           volatility |-> IF score_input.daily_len >= 30
                          THEN FRoundDigits(score_input.daily_volatility, 10000) ELSE None]
    /\ sc_pc' = "done"
    /\ UNCHANGED <<score_input, allocation_fit, total_score>>
    /\ UNCHANGED score_frame

ScoreNext ==
    \/ ScoreBlend
    \/ ScoreReturn

SpecScore == ScoreInit /\ [][ScoreNext]_vars

\* The blend as the contract states it: 0.35/0.35/0.15/0.15, or the first
\* three terms over 0.85 when there is no allocation-fit score.
ClaimBlend3Sum(q, o, a) ==
    FAdd(FAdd(FMul(F(35, 100), q), FMul(F(35, 100), o)), FMul(F(15, 100), a))

ClaimBlend4(q, o, a, f) == FAdd(ClaimBlend3Sum(q, o, a), FMul(F(15, 100), f))

ClaimBlend3(q, o, a) == FDiv(ClaimBlend3Sum(q, o, a), F(85, 100))

ClaimFitSupplied ==
    /\ score_input.portfolio_context # None
    /\ score_input.geography # NoString
    /\ score_input.geography # ""

ClaimAllPresent ==
    /\ score_input.monthly_len >= 24
    /\ score_input.opportunity # None
    /\ score_input.analyst_data # None

\* The component totals that enter the blend: the total of the score the
\* component scorer yielded, or 0.5 for a scorer that yields nothing.
ClaimQualityTotal ==
    IF score_input.monthly_len >= 24 THEN quality.total ELSE F(5, 10)

ClaimOpportunityTotal ==
    IF score_input.opportunity # None THEN score_input.opportunity.total
    ELSE F(5, 10)

ClaimAnalystTotal ==
    IF score_input.analyst_data # None THEN analyst.total ELSE F(5, 10)

ClaimExpectedTotal ==
    IF ClaimFitSupplied
    THEN ClaimBlend4(ClaimQualityTotal, ClaimOpportunityTotal, ClaimAnalystTotal,
                     score_input.fit_total)
    ELSE ClaimBlend3(ClaimQualityTotal, ClaimOpportunityTotal, ClaimAnalystTotal)

\* C6: with the three component scores present, total_score before rounding
\* is 0.35 q + 0.35 o + 0.15 a + 0.15 fit when an allocation-fit score is
\* available and (0.35 q + 0.35 o + 0.15 a) / 0.85 when it is not; it is
\* available exactly when a portfolio context and a geography are supplied;
\* and q = o = a = 0.9 without allocation fit gives exactly 0.9.
C6_WeightedBlend ==
    (sc_pc \in {"blended", "done"} /\ ClaimAllPresent) =>
        /\ (allocation_fit # None) <=> ClaimFitSupplied
        /\ ClaimFitSupplied =>
              total_score = ClaimBlend4(ClaimQualityTotal, ClaimOpportunityTotal,
                                        ClaimAnalystTotal, score_input.fit_total)
        /\ ~ClaimFitSupplied =>
              total_score = ClaimBlend3(ClaimQualityTotal, ClaimOpportunityTotal,
                                        ClaimAnalystTotal)
        /\ (/\ ~ClaimFitSupplied
            /\ ClaimQualityTotal = F(9, 10)
            /\ ClaimOpportunityTotal = F(9, 10)
            /\ ClaimAnalystTotal = F(9, 10)) => total_score = F(9, 10)

\* quality = opportunity = analyst = 0.9 without allocation fit gave 0.9.
C6_Witness ==
    /\ sc_pc = "done"
    /\ ClaimAllPresent
    /\ ~ClaimFitSupplied
    /\ ClaimQualityTotal = F(9, 10)
    /\ ClaimOpportunityTotal = F(9, 10)
    /\ ClaimAnalystTotal = F(9, 10)
    /\ total_score = F(9, 10)
    /\ calculated.total_score = F(9, 10)

ClaimInUnit(x) == FLe(FInt(0), x) /\ FLe(x, FInt(1))

ClaimComponentsInUnit ==
    /\ ClaimInUnit(ClaimQualityTotal)
    /\ ClaimInUnit(ClaimOpportunityTotal)
    /\ ClaimInUnit(ClaimAnalystTotal)
    /\ ClaimFitSupplied => ClaimInUnit(score_input.fit_total)

\* C7: when every component total fed into the blend lies in [0,1], the
\* total (before rounding and as returned) lies in [0,1], in the 4-term
\* branch and in the renormalized 3-term branch.
C7_TotalScoreInUnitInterval ==
    (sc_pc \in {"blended", "done"} /\ ClaimComponentsInUnit) =>
        /\ ClaimInUnit(total_score)
        /\ sc_pc = "done" => ClaimInUnit(calculated.total_score)

\* Both branches reached their upper end: a returned total of exactly 1
\* without allocation fit.
C7_Witness ==
    /\ sc_pc = "done"
    /\ ~ClaimFitSupplied
    /\ ClaimQualityTotal = FInt(1)
    /\ ClaimOpportunityTotal = FInt(1)
    /\ ClaimAnalystTotal = FInt(1)
    /\ calculated.total_score = FInt(1)

ClaimNeutralQuality(qs) ==
    /\ qs.total_return_score = F(5, 10)
    /\ qs.consistency_score = F(5, 10)
    /\ qs.financial_strength_score = F(5, 10)
    /\ qs.sharpe_ratio_score = F(5, 10)
    /\ qs.max_drawdown_score = F(5, 10)
    /\ qs.dividend_bonus = FInt(0)
    /\ qs.total = F(5, 10)

ClaimAllHalf(score) == \A k \in DOMAIN score : score[k] = F(5, 10)

RebInit ==
    /\ rb_pc = "start"
    /\ available_cash \in CashValues
    /\ settings \in SettingsValues
    /\ stocks_data \in Universes
    /\ max_trades = 0
    /\ priority_inputs = <<>>
    /\ selected = <<>>
    /\ base_trade_size = None
    /\ remaining_cash = None
    /\ next_candidate = 0
    /\ recommendations = <<>>
    /\ rb_reads = {}
    /\ GenIdle
    /\ SizeIdle
    /\ ScoreIdle
    /\ JobsIdle
    /\ RefreshIdle
    /\ QualityIdle
    /\ HistIdle

\* The cash threshold and get_max_trades: return [] or go on.
RebCheckCash ==
    /\ rb_pc = "start"
    /\ max_trades' = IF FLt(available_cash, settings.min_cash_threshold) THEN 0
                     ELSE GetMaxTrades(available_cash, settings)
    /\ rb_pc' = IF max_trades' = 0 THEN "done" ELSE "scoring"
    /\ UNCHANGED <<available_cash, settings, stocks_data, priority_inputs, selected,
                   base_trade_size, remaining_cash, next_candidate, recommendations,
                   rb_reads>>
    /\ UNCHANGED reb_frame

\* Portfolio context, final scores, the min_stock_score filter.
RebScore ==
    /\ rb_pc = "scoring"
    /\ priority_inputs' = BuildPriorityInputs(stocks_data, settings)
    /\ rb_pc' = IF priority_inputs' = <<>> THEN "done" ELSE "ranking"
    /\ rb_reads' = rb_reads \cup {"portfolio_summary", "scored_universe"}
    /\ UNCHANGED <<available_cash, settings, stocks_data, max_trades, selected,
                   base_trade_size, remaining_cash, next_candidate, recommendations>>
    /\ UNCHANGED reb_frame

\* Ranking, top N, base trade size.
RebRank ==
    /\ rb_pc = "ranking"
    /\ selected' = TopN(CalculatePriorities(priority_inputs), max_trades)
    /\ base_trade_size' = FDiv(available_cash, FInt(Len(selected')))
    /\ remaining_cash' = available_cash
    /\ next_candidate' = 1
    /\ rb_pc' = "allocating"
    /\ UNCHANGED <<available_cash, settings, stocks_data, max_trades,
                   priority_inputs, recommendations, rb_reads>>
    /\ UNCHANGED reb_frame

\* if remaining_cash < settings.min_trade_size: break
RebBreak ==
    /\ rb_pc = "allocating"
    /\ next_candidate <= Len(selected)
    /\ FLt(remaining_cash, settings.min_trade_size)
    /\ rb_pc' = "done"
    /\ UNCHANGED <<available_cash, settings, stocks_data, max_trades, priority_inputs,
                   selected, base_trade_size, remaining_cash, next_candidate,
                   recommendations, rb_reads>>
    /\ UNCHANGED reb_frame

\* A skipped candidate ends the cycle.
RebSkipEndsCycle ==
    /\ rb_pc = "allocating"
    /\ next_candidate <= Len(selected)
    /\ ~FLt(remaining_cash, settings.min_trade_size)
    /\ SkipReason(selected[next_candidate], stocks_data, base_trade_size,
                  remaining_cash, settings) # "none"
    /\ rb_pc' = "done"
    /\ rb_reads' = rb_reads \cup {"price"}
    /\ UNCHANGED <<next_candidate, available_cash, settings, stocks_data, max_trades,
                   priority_inputs, selected, base_trade_size, remaining_cash,
                   recommendations>>
    /\ UNCHANGED reb_frame

\* A loop body that ends in continue.
RebSkip ==
    /\ rb_pc = "allocating"
    /\ next_candidate <= Len(selected)
    /\ ~FLt(remaining_cash, settings.min_trade_size)
    /\ SkipReason(selected[next_candidate], stocks_data, base_trade_size,
                  remaining_cash, settings) # "none"
    /\ next_candidate' = next_candidate + 1
    /\ rb_reads' = rb_reads \cup {"price"}
    /\ UNCHANGED <<rb_pc, available_cash, settings, stocks_data, max_trades,
                   priority_inputs, selected, base_trade_size, remaining_cash,
                   recommendations>>
    /\ UNCHANGED reb_frame

\* What RebEmit does with the purchase of this pass.
RebAppend(purchase) ==
    /\ recommendations' = Append(recommendations, purchase.recommendation)
    /\ remaining_cash' = FSub(remaining_cash, purchase.actual_value)

\* A loop body that appends a TradeRecommendation.
RebEmit ==
    /\ rb_pc = "allocating"
    /\ next_candidate <= Len(selected)
    /\ ~FLt(remaining_cash, settings.min_trade_size)
    /\ SkipReason(selected[next_candidate], stocks_data, base_trade_size,
                  remaining_cash, settings) = "none"
    /\ RebAppend(Purchase(selected[next_candidate], stocks_data, base_trade_size,
                          remaining_cash, settings))
    /\ next_candidate' = next_candidate + 1
    /\ rb_reads' = rb_reads \cup {"price"}
    /\ UNCHANGED <<rb_pc, available_cash, settings, stocks_data, max_trades,
                   priority_inputs, selected, base_trade_size>>
    /\ UNCHANGED reb_frame

\* The for loop ran out of candidates.
RebExhausted ==
    /\ rb_pc = "allocating"
    /\ next_candidate > Len(selected)
    /\ rb_pc' = "done"
    /\ UNCHANGED <<available_cash, settings, stocks_data, max_trades, priority_inputs,
                   selected, base_trade_size, remaining_cash, next_candidate,
                   recommendations, rb_reads>>
    /\ UNCHANGED reb_frame

RebNext ==
    \/ RebCheckCash
    \/ RebScore
    \/ RebRank
    \/ RebBreak
    \/ RebSkip
    \/ RebEmit
    \/ RebExhausted

SpecReb == RebInit /\ [][RebNext]_vars

(***************************************************************************)
(* Claims about calculate_rebalance_trades.                                *)
(***************************************************************************)
\* Reading of the returned list, from the universe the call was given.
ClaimRow(symbol) ==
    CHOOSE r \in {stocks_data[i] : i \in 1..Len(stocks_data)} : r.symbol = symbol

ClaimMinLot(symbol) ==
    IF IsNone(ClaimRow(symbol).min_lot) THEN 1 ELSE ClaimRow(symbol).min_lot[1]

RECURSIVE ClaimSpent(_)
\* Sum over the recommendations of quantity x the price the call was quoted.
ClaimSpent(recs) ==
    IF recs = <<>> THEN FInt(0)
    ELSE FAdd(ClaimSpent(SubSeq(recs, 1, Len(recs) - 1)),
              FMul(FInt(recs[Len(recs)].quantity), ClaimRow(recs[Len(recs)].symbol).price))

\* C3: every recommendation of calculate_rebalance_trades has a quantity that
\* is a positive whole multiple of the security's min_lot (1 when the stock
\* row has none).
C3_QuantityIsPositiveMultipleOfMinLot ==
    \A i \in 1..Len(recommendations) :
        /\ recommendations[i].quantity > 0
        /\ recommendations[i].quantity % ClaimMinLot(recommendations[i].symbol) = 0

\* A recommendation for a security that trades in lots of more than one
\* share, sized from an amount that is not a whole number of lots.
C3_Witness ==
    /\ rb_pc = "done"
    /\ \E i \in 1..Len(recommendations) :
          /\ ClaimMinLot(recommendations[i].symbol) > 1
          /\ recommendations[i].quantity > ClaimMinLot(recommendations[i].symbol)
    /\ \E i \in 1..Len(recommendations) :
          ClaimMinLot(recommendations[i].symbol) = 1

\* C4: during the allocation the remaining cash is never negative, and the
\* recommendations made so far cost, at quantity x price, no more than the
\* available cash the call was given.
C4_CashNeverOverspent ==
    rb_pc \in {"allocating", "done"} /\ ~IsNone(remaining_cash) =>
        /\ FLe(FInt(0), remaining_cash)
        /\ FLe(ClaimSpent(recommendations), available_cash)

\* The call was given less cash than the minimum cash threshold or than the
\* minimum trade size.
ClaimIneligible ==
    /\ rb_pc # "idle"
    /\ \/ FLt(available_cash, settings.min_cash_threshold)
       \/ FLt(available_cash, settings.min_trade_size)

\* C12: with available_cash below the minimum cash threshold or below the
\* minimum trade size, calculate_rebalance_trades returns an empty list
\* straight from its first checks: it never scores, ranks or allocates, and
\* reads no portfolio summary, no scored universe and no price.
C12_IneligibleCashReturnsEmptyWithoutReading ==
    ClaimIneligible =>
        /\ rb_pc \in {"start", "done"}
        /\ recommendations = <<>>
        /\ rb_reads = {}
        /\ priority_inputs = <<>>
        /\ selected = <<>>
        /\ remaining_cash = None

\* Cash 300 against a minimum trade size of 400, above the cash threshold,
\* with a universe that holds a qualifying security: the call has returned.
C12_Witness ==
    /\ rb_pc = "done"
    /\ available_cash = FInt(300)
    /\ settings.min_trade_size = FInt(400)
    /\ ~FLt(available_cash, settings.min_cash_threshold)
    /\ \E i \in 1..Len(stocks_data) : stocks_data[i].symbol = "HIGH"
    /\ recommendations = <<>>

\* The allocation loop of a call that is over has looked at every security
\* of the ranked list of qualifying securities.
ClaimCandidatesExhausted == next_candidate > Len(priority_inputs)

\* C13: a call that entered the allocating phase is done only with the
\* remaining cash below the minimum trade size, or with every candidate of
\* the ranked list of qualifying securities considered, or with as many
\* recommendations as the maximum trade count.
C13_DoneOnlyOnCashCandidatesOrTradeCount ==
    (rb_pc = "done" /\ ~IsNone(remaining_cash)) =>
        \/ FLt(remaining_cash, settings.min_trade_size)
        \/ ClaimCandidatesExhausted
        \/ Len(recommendations) >= max_trades

\* The amount the allocation loop allots to a candidate: its dynamic
\* position size, at most the remaining cash.
ClaimAllotted(result) ==
    Sizing(result, stocks_data, base_trade_size, remaining_cash, settings).invest_amount

\* The candidate has no obtainable price, or one minimum lot of it costs
\* more than the amount allotted to it.
ClaimUnbuyable(result) ==
    \/ IsNone(ClaimRow(result.symbol).price)
    \/ FLe(ClaimRow(result.symbol).price, FInt(0))
    \/ FLt(ClaimAllotted(result),
           FMul(FInt(ClaimMinLot(result.symbol)), ClaimRow(result.symbol).price))

\* The allocation loop is at a candidate it will look at.
ClaimAtCandidate ==
    /\ rb_pc = "allocating"
    /\ next_candidate <= Len(selected)
    /\ ~FLt(remaining_cash, settings.min_trade_size)

ClaimFloor(x) == CHOOSE k \in 0..100 : FLe(FInt(k), x) /\ FLt(x, FInt(k + 1))

\* get_max_trades(available_cash) as the contract states it.
ClaimMaxTrades ==
    IF FLt(available_cash, settings.min_trade_size) THEN 0
    ELSE IF ClaimFloor(FDiv(available_cash, settings.min_trade_size))
               < settings.max_trades_per_cycle
         THEN ClaimFloor(FDiv(available_cash, settings.min_trade_size))
         ELSE settings.max_trades_per_cycle

\* C15: get_max_trades(cash) is 0 for cash < min_trade_size and otherwise
\* min(max_trades_per_cycle, floor(cash / min_trade_size)), so it lies in
\* 0..max_trades_per_cycle; calculate_rebalance_trades never holds more
\* recommendations than get_max_trades(available_cash).
C15_AtMostMaxTradesRecommendations ==
    rb_pc # "idle" =>
        /\ GetMaxTrades(available_cash, settings) = ClaimMaxTrades
        /\ ClaimMaxTrades \in 0..settings.max_trades_per_cycle
        /\ (rb_pc \in {"scoring", "ranking", "allocating"}) => max_trades = ClaimMaxTrades
        /\ Len(recommendations) <= ClaimMaxTrades

\* A finished call that made as many recommendations as max_trades_per_cycle
\* allows, with cash for more trades and a third qualifying security.
C15_Witness ==
    /\ rb_pc = "done"
    /\ ClaimMaxTrades = settings.max_trades_per_cycle
    /\ ClaimFloor(FDiv(available_cash, settings.min_trade_size)) > ClaimMaxTrades
    /\ Len(priority_inputs) > ClaimMaxTrades
    /\ Len(recommendations) = ClaimMaxTrades

\* Where the universe holds the symbol.
ClaimUniverseIndex(symbol) ==
    CHOOSE i \in 1..Len(stocks_data) : stocks_data[i].symbol = symbol

\* stock_score x multiplier of a security, the multiplier 1.0 without an
\* override.
ClaimCombinedPriority(symbol) ==
    FMul(FinalScore(ClaimRow(symbol)),
         IF IsNone(ClaimRow(symbol).priority_multiplier) THEN FInt(1)
         ELSE ClaimRow(symbol).priority_multiplier)

\* C16: the recommendations are in ranking order: combined_priority =
\* stock_score x multiplier does not increase along the list, securities of
\* equal combined_priority keep their order in the universe, no security
\* with a final score below min_stock_score appears, and no symbol appears
\* twice.
C16_RecommendationsInRankingOrder ==
    /\ \A i \in 1..Len(recommendations) :
          ~FLt(FinalScore(ClaimRow(recommendations[i].symbol)),
               settings.min_stock_score)
    /\ \A i \in 1..Len(recommendations) : \A j \in 1..Len(recommendations) :
          i < j =>
             /\ recommendations[i].symbol # recommendations[j].symbol
             /\ FLe(ClaimCombinedPriority(recommendations[j].symbol),
                    ClaimCombinedPriority(recommendations[i].symbol))
             /\ (ClaimCombinedPriority(recommendations[j].symbol)
                    = ClaimCombinedPriority(recommendations[i].symbol)) =>
                   ClaimUniverseIndex(recommendations[i].symbol)
                       < ClaimUniverseIndex(recommendations[j].symbol)

\* Three recommendations: a security lifted to the front by its multiplier
\* although it is last in the universe and has the lowest score, then two of
\* equal combined_priority in universe order.
C16_Witness ==
    /\ rb_pc = "done"
    /\ Len(recommendations) = 3
    /\ ClaimUniverseIndex(recommendations[1].symbol) = 3
    /\ FLt(FinalScore(ClaimRow(recommendations[1].symbol)),
           FinalScore(ClaimRow(recommendations[2].symbol)))
    /\ ClaimCombinedPriority(recommendations[2].symbol)
          = ClaimCombinedPriority(recommendations[3].symbol)
    /\ ClaimUniverseIndex(recommendations[2].symbol) = 1

\* A finished call whose universe held a security below min_stock_score.
C16_BelowMinimumLeftOut ==
    /\ rb_pc = "done"
    /\ Len(recommendations) = 2
    /\ \E i \in 1..Len(stocks_data) :
          FLt(FinalScore(stocks_data[i]), settings.min_stock_score)

(***************************************************************************)
(* The locked jobs as a state machine: one coroutine per trigger.          *)
(***************************************************************************)
JobsInit ==
    /\ JobsIdle
    /\ GenIdle
    /\ SizeIdle
    /\ ScoreIdle
    /\ RebIdle
    /\ RefreshIdle
    /\ QualityIdle
    /\ HistIdle

\* The scheduler (or a caller) starts the job function: the coroutine
\* reaches file_lock.__aenter__.
JobTrigger(t, job) ==
    /\ job_pc[t] = "idle"
    /\ job_pc' = [job_pc EXCEPT ![t] = "acquiring"]
    /\ job_of' = [job_of EXCEPT ![t] = job]
    /\ UNCHANGED <<locks, job_waited, job_events, job_log, job_raised>>
    /\ UNCHANGED jobs_frame

\* The lock is free: __aenter__ returns and the body runs up to its first
\* await.
JobEnter(t) ==
    /\ job_pc[t] = "acquiring"
    /\ locks[job_of[t]] = 0
    /\ locks' = Acquired(locks, job_of[t], t)
    /\ job_pc' = [job_pc EXCEPT ![t] = "body"]
    /\ job_events' = [job_events EXCEPT
                        ![t] = @ \o BodyPrologue(job_of[t]).events]
    /\ job_log' = [job_log EXCEPT ![t] = @ \o BodyPrologue(job_of[t]).log]
    /\ UNCHANGED <<job_of, job_waited, job_raised>>
    /\ UNCHANGED jobs_frame

\* The lock is held: __aenter__ keeps waiting.
LockWait(t) ==
    /\ job_pc[t] = "acquiring"
    /\ locks[job_of[t]] # 0
    /\ ~job_waited[t]
    /\ job_waited' = [job_waited EXCEPT ![t] = TRUE]
    /\ UNCHANGED <<locks, job_pc, job_of, job_events, job_log, job_raised>>
    /\ UNCHANGED jobs_frame

\* The lock stayed held for the timeout: __aenter__ raises.  No job
\* function has a handler around its `async with`, so the exception leaves
\* the job function.
LockTimeout(t) ==
    /\ job_pc[t] = "acquiring"
    /\ locks[job_of[t]] # 0
    /\ job_waited[t]
    /\ job_pc' = [job_pc EXCEPT ![t] = "raised"]
    /\ job_raised' = [job_raised EXCEPT ![t] = "TimeoutError"]
    /\ UNCHANGED <<locks, job_of, job_waited, job_events, job_log>>
    /\ UNCHANGED jobs_frame

\* The rest of the body runs to its end and the `async with` block is left.
JobFinish(t, outcome) ==
    /\ job_pc[t] = "body"
    /\ outcome \in BodyOutcomes(job_of[t])
    /\ job_events' = [job_events EXCEPT
                        ![t] = @ \o Body(job_of[t], outcome).events]
    /\ job_log' = [job_log EXCEPT ![t] = @ \o Body(job_of[t], outcome).log]
    /\ job_raised' = [job_raised EXCEPT ![t] = Body(job_of[t], outcome).exc]
    /\ locks' = AsyncWithExit(locks, job_of[t], Body(job_of[t], outcome).exc)
    /\ job_pc' = [job_pc EXCEPT
                    ![t] = IF Body(job_of[t], outcome).exc = NoString
                           THEN "returned" ELSE "raised"]
    /\ UNCHANGED <<job_of, job_waited>>
    /\ UNCHANGED jobs_frame

AllOutcomes ==
    {"no_stocks", "no_connection", "no_transactions", "ok", "error",
     "cancelled"}

JobsNext ==
    \/ \E t \in Triggers, job \in JobNames : JobTrigger(t, job)
    \/ \E t \in Triggers : JobEnter(t)
    \/ \E t \in Triggers : LockWait(t)
    \/ \E t \in Triggers : LockTimeout(t)
    \/ \E t \in Triggers, outcome \in AllOutcomes : JobFinish(t, outcome)

SpecJobs == JobsInit /\ [][JobsNext]_vars

\* Trigger t is executing the cycle body of job j.
ClaimInBody(t, j) == job_of[t] = j /\ job_pc[t] = "body"

ClaimFinished(t) == job_pc[t] \in {"returned", "raised"}

ClaimEmitted(t, event) == \E i \in 1..Len(job_events[t]) : job_events[t][i] = event

ClaimLogged(t, level) == \E i \in 1..Len(job_log[t]) : job_log[t][i] = level

\* C19: for each locked job at most one trigger is executing the cycle
\* body at any time; a trigger executes the body only while it holds the
\* job's lock, so a second trigger cannot enter before the first released
\* it; and the lock is released on every exit of the body, by return or by
\* exception: a held lock belongs to a trigger that is in the body.
C19_OneBodyAtATimeAndLockReleasedOnExit ==
    \A j \in JobNames :
        /\ Cardinality({t \in Triggers : ClaimInBody(t, j)}) <= 1
        /\ \A t \in Triggers : ClaimInBody(t, j) => locks[j] = t
        /\ locks[j] # 0 => ClaimInBody(locks[j], j)
        /\ \A t \in Triggers : job_of[t] = j /\ ClaimFinished(t) => locks[j] # t

\* Two triggers of one job overlapped: the second found the lock held and
\* waited, the first left its body by an exception, and the second then
\* entered the body.
C19_Witness ==
    \E j \in JobNames : \E t1, t2 \in Triggers :
        /\ t1 # t2
        /\ job_of[t1] = j
        /\ job_pc[t1] = "raised"
        /\ job_raised[t1] \in {"Exception", "CancelledError"}
        /\ job_waited[t2]
        /\ ClaimInBody(t2, j)

\* C20: a trigger of refresh_all_scores whose lock acquisition timed out
\* has ended without running the cycle body and without holding the lock,
\* has logged the failure and has emitted an error event.
C20_LockTimeoutLoggedAndNotified ==
    \A t \in Triggers :
        job_of[t] = "score_refresh" /\ job_raised[t] = "TimeoutError" =>
            /\ ClaimFinished(t)
            /\ ~ClaimEmitted(t, "SCORE_REFRESH_START")
            /\ locks["score_refresh"] # t
            /\ ClaimLogged(t, "error")
            /\ ClaimEmitted(t, "ERROR_OCCURRED")

\* A trigger of refresh_all_scores timed out on the lock while another
\* trigger of the job was still in the cycle body.
C20_Witness ==
    \E t1, t2 \in Triggers :
        /\ ClaimInBody(t1, "score_refresh")
        /\ job_of[t2] = "score_refresh"
        /\ job_raised[t2] = "TimeoutError"
        /\ job_pc[t2] = "raised"
        /\ job_events[t2] = <<>>
        /\ job_log[t2] = <<>>

(***************************************************************************)
(* One run of _refresh_all_scores_internal as a state machine.             *)
(***************************************************************************)
RefreshInit ==
    /\ rf_pc = "start"
    /\ rf_n = 0
    /\ rf_outcomes = <<>>
    /\ rf_db_version = 0
    /\ rf_context = None
    /\ rf_passed = <<>>
    /\ rf_pending = {}
    /\ rf_committed = {}
    /\ rf_events = <<>>
    /\ rf_log = <<>>
    /\ GenIdle
    /\ SizeIdle
    /\ ScoreIdle
    /\ RebIdle
    /\ JobsIdle
    /\ QualityIdle
    /\ HistIdle

\* Lines 31-35: the prologue, up to the first await.
RefreshCall ==
    /\ rf_pc = "start"
    /\ rf_events' = rf_events \o <<"SCORE_REFRESH_START", "PROCESSING_START">>
    /\ rf_log' = rf_log \o <<"info">>
    /\ rf_pc' = "selecting"
    /\ UNCHANGED <<rf_n, rf_outcomes, rf_db_version, rf_context, rf_passed,
                   rf_pending, rf_committed>>
    /\ UNCHANGED refresh_frame

\* Lines 46-50: no active stocks.
RefreshNoStocks ==
    /\ rf_pc = "selecting"
    /\ rf_n' = 0
    /\ rf_events' = rf_events \o <<"PROCESSING_END", "SCORE_REFRESH_COMPLETE">>
    /\ rf_log' = rf_log \o <<"info">>
    /\ rf_pc' = "returned"
    /\ UNCHANGED <<rf_outcomes, rf_db_version, rf_context, rf_passed,
                   rf_pending, rf_committed>>
    /\ UNCHANGED refresh_frame

\* Lines 41-44: n active stocks selected.
RefreshSelected(n) ==
    /\ rf_pc = "selecting"
    /\ n > 0
    /\ rf_n' = n
    /\ rf_pc' = "context"
    /\ UNCHANGED <<rf_outcomes, rf_db_version, rf_context, rf_passed,
                   rf_pending, rf_committed, rf_events, rf_log>>
    /\ UNCHANGED refresh_frame

\* Line 53: the PortfolioContext is built once, from the tables as they are.
RefreshBuildContext ==
    /\ rf_pc = "context"
    /\ rf_context' = <<rf_db_version>>
    /\ rf_pc' = "loop"
    /\ UNCHANGED <<rf_n, rf_outcomes, rf_db_version, rf_passed, rf_pending,
                   rf_committed, rf_events, rf_log>>
    /\ UNCHANGED refresh_frame

\* the per-row handler re-raising into the handler of the pass
RefreshRowAborting(outcome) ==
    /\ rf_pc = "loop"
    /\ rf_outcomes' = Append(rf_outcomes, outcome)
    /\ rf_passed' = Append(rf_passed,
                           IF outcome \in {"score_error", "no_score",
                                           "insert_error", "scored"}
                           THEN rf_context ELSE None)
    /\ rf_pending' = IF outcome = "scored"
                     THEN rf_pending \cup {Len(rf_outcomes) + 1}
                     ELSE rf_pending
    /\ rf_log' = rf_log \o RowLog(outcome)
    /\ rf_events' = IF outcome \in RowFailures
                    THEN rf_events \o <<"PROCESSING_END", "ERROR_OCCURRED">>
                    ELSE rf_events
    /\ rf_pc' = IF outcome \in RowFailures THEN "returned"
                ELSE IF Len(rf_outcomes) + 1 = rf_n THEN "commit" ELSE "loop"
    /\ UNCHANGED <<rf_n, rf_db_version, rf_context, rf_committed>>
    /\ UNCHANGED refresh_frame

\* Lines 56-115: the loop body for the next row.  A row that raises is
\* logged and the loop continues (lines 113-115).
RefreshRow(outcome) ==
    /\ rf_pc = "loop"
    /\ rf_outcomes' = Append(rf_outcomes, outcome)
    /\ rf_passed' = Append(rf_passed,
                           IF outcome \in {"score_error", "no_score",
                                           "insert_error", "scored"}
                           THEN rf_context ELSE None)
    /\ rf_pending' = IF outcome = "scored"
                     THEN rf_pending \cup {Len(rf_outcomes) + 1}
                     ELSE rf_pending
    /\ rf_log' = rf_log \o RowLog(outcome)
    /\ rf_pc' = IF Len(rf_outcomes) + 1 = rf_n THEN "commit" ELSE "loop"
    /\ UNCHANGED <<rf_n, rf_db_version, rf_context, rf_committed, rf_events>>
    /\ UNCHANGED refresh_frame

\* Lines 117-122: commit and the completion events.
RefreshCommit ==
    /\ rf_pc = "commit"
    /\ rf_committed' = rf_pending
    /\ rf_pending' = {}
    /\ rf_log' = rf_log \o <<"info">>
    /\ rf_events' = rf_events \o <<"PROCESSING_END", "SCORE_REFRESH_COMPLETE">>
    /\ rf_pc' = "returned"
    /\ UNCHANGED <<rf_n, rf_outcomes, rf_db_version, rf_context, rf_passed>>
    /\ UNCHANGED refresh_frame

\* Lines 124-127: the SELECT, _build_portfolio_context or the commit raises
\* an Exception.
RefreshFail ==
    /\ rf_pc \in {"selecting", "context", "commit"}
    /\ rf_log' = rf_log \o <<"error">>
    /\ rf_events' = rf_events \o <<"PROCESSING_END", "ERROR_OCCURRED">>
    /\ rf_pc' = "returned"
    /\ UNCHANGED <<rf_n, rf_outcomes, rf_db_version, rf_context, rf_passed,
                   rf_pending, rf_committed>>
    /\ UNCHANGED refresh_frame

\* The task is cancelled while the body awaits: asyncio.CancelledError is
\* not an Exception, so neither handler (lines 113, 124) catches it.
RefreshCancel ==
    /\ rf_pc \in {"selecting", "context", "loop", "commit"}
    /\ rf_pc' = "cancelled"
    /\ UNCHANGED <<rf_n, rf_outcomes, rf_db_version, rf_context, rf_passed,
                   rf_pending, rf_committed, rf_events, rf_log>>
    /\ UNCHANGED refresh_frame

\* Another writer changes the positions / scores tables while the pass
\* awaits.
DbChange ==
    /\ rf_pc \in {"selecting", "context", "loop", "commit"}
    /\ rf_db_version + 1 \in DbVersions
    /\ rf_db_version' = rf_db_version + 1
    /\ UNCHANGED <<rf_pc, rf_n, rf_outcomes, rf_context, rf_passed,
                   rf_pending, rf_committed, rf_events, rf_log>>
    /\ UNCHANGED refresh_frame

RefreshNext ==
    \/ RefreshCall
    \/ RefreshNoStocks
    \/ \E n \in 1..MaxRows : RefreshSelected(n)
    \/ RefreshBuildContext
    \/ \E outcome \in RowOutcomes : RefreshRow(outcome)
    \/ RefreshCommit
    \/ RefreshFail
    \/ RefreshCancel
    \/ DbChange

SpecRefresh == RefreshInit /\ [][RefreshNext]_vars

ClaimLast(s) == s[Len(s)]

\* The row step of the pass that just happened raised inside the loop body.
ClaimRowFailed ==
    /\ rf_pc = "loop"
    /\ Len(rf_outcomes') = Len(rf_outcomes) + 1
    /\ ClaimLast(rf_outcomes') \in RowFailures

\* C21: a row that fails while its data is fetched, while it is scored or
\* while its score is stored does not fail the pass: the step emits nothing,
\* leaves the stored scores and the PortfolioContext alone and goes on to
\* the next row or to the commit; every row that reaches the scorer gets the
\* context built before the loop; and a pass that reached the commit has
\* processed every row, has committed every score computed and has ended
\* with SCORE_REFRESH_COMPLETE.
C21_RowFailureNeverFailsThePass ==
    [][/\ ClaimRowFailed =>
            /\ rf_pc' \in {"loop", "commit"}
            /\ rf_events' = rf_events
            /\ rf_pending' = rf_pending
            /\ rf_context' = rf_context
       /\ \A i \in 1..Len(rf_passed') :
            /\ rf_passed'[i] \in {None, rf_context'}
            /\ rf_outcomes'[i] \in {"score_error", "no_score", "insert_error",
                                    "scored"} => rf_passed'[i] = rf_context'
       /\ rf_pc = "loop" => rf_pc' \in {"loop", "commit", "cancelled"}
       /\ rf_pc = "commit" /\ rf_pc' = "returned"
             /\ ClaimLast(rf_log') # "error" =>
            /\ Len(rf_outcomes') = rf_n
            /\ rf_committed' =
                  {i \in 1..rf_n : rf_outcomes'[i] = "scored"}
            /\ rf_pending' = {}
            /\ ClaimLast(rf_events') = "SCORE_REFRESH_COMPLETE"
            /\ \A i \in 1..Len(rf_events') :
                  rf_events'[i] # "ERROR_OCCURRED"]_vars

\* A finished pass of three rows in which the first and the last row
\* failed, the second was scored and committed, the tables changed after
\* the context was built, and the pass ended with the completion event.
C21_Witness ==
    /\ rf_pc = "returned"
    /\ rf_outcomes = <<"fetch_error", "scored", "score_error">>
    /\ rf_committed = {2}
    /\ rf_context = <<0>>
    /\ rf_db_version = 1
    /\ rf_passed = <<None, <<0>>, <<0>>>>
    /\ ClaimLast(rf_events) = "SCORE_REFRESH_COMPLETE"

\* C29: a run of the body that emitted SCORE_REFRESH_START and
\* PROCESSING_START and has ended has emitted, after them, PROCESSING_END
\* followed by exactly one of SCORE_REFRESH_COMPLETE and ERROR_OCCURRED.
C29_EveryRunEndsProcessing ==
    rf_pc \in {"returned", "cancelled"} =>
        /\ Len(rf_events) = 4
        /\ rf_events[1] = "SCORE_REFRESH_START"
        /\ rf_events[2] = "PROCESSING_START"
        /\ rf_events[3] = "PROCESSING_END"
        /\ rf_events[4] \in {"SCORE_REFRESH_COMPLETE", "ERROR_OCCURRED"}

\* The same for the runs that end by returning.
C29_EveryReturningRunEndsProcessing ==
    rf_pc = "returned" =>
        /\ Len(rf_events) = 4
        /\ rf_events[1] = "SCORE_REFRESH_START"
        /\ rf_events[2] = "PROCESSING_START"
        /\ rf_events[3] = "PROCESSING_END"
        /\ rf_events[4] \in {"SCORE_REFRESH_COMPLETE", "ERROR_OCCURRED"}

\* A run cancelled inside the loop: processing was started and never ended.
C29_Witness ==
    /\ rf_pc = "cancelled"
    /\ rf_events = <<"SCORE_REFRESH_START", "PROCESSING_START">>
    /\ Len(rf_outcomes) > 0

(***************************************************************************)
(* calculate_quality_score as a one-call machine.                          *)
(***************************************************************************)
QualityInit ==
    /\ q_pc = "input"
    /\ q_in \in QualityInputs
    /\ q_raw = None
    /\ q_out = None
    /\ GenIdle
    /\ SizeIdle
    /\ ScoreIdle
    /\ RebIdle
    /\ JobsIdle
    /\ RefreshIdle
    /\ HistIdle

QualityCompute ==
    /\ q_pc = "input"
    /\ q_raw' = IF q_in.monthly_len < MIN_MONTHS_FOR_CAGR THEN None
                ELSE QualityComponentScores(q_in)
    /\ q_out' = IF q_in.monthly_len < MIN_MONTHS_FOR_CAGR THEN None
                ELSE CalculateQualityScore(q_in.monthly_len,
                                           QualityComponentScores(q_in))
    /\ q_pc' = "done"
    /\ UNCHANGED q_in
    /\ UNCHANGED quality_frame

QualityNext == QualityCompute

SpecQuality == QualityInit /\ [][QualityNext]_vars

ClaimHalf == F(5, 10)

\* The call returned a QualityScore for a fundamentals record.
ClaimScoredRecord ==
    q_pc = "done" /\ q_raw # None /\ q_in.fundamentals # None

\* C22: every absent field of a fundamentals record contributes the neutral
\* 0.5 for its term, and a record with profit_margin, debt_to_equity and
\* current_ratio all absent scores 0.5, as no record does.
C22_AbsentFieldsAreNeutral ==
    ClaimScoredRecord =>
        /\ q_in.fundamentals.profit_margin = None =>
              MarginScore(q_in.fundamentals) = ClaimHalf
        /\ q_in.fundamentals.debt_to_equity = None =>
              DebtToEquityScore(q_in.fundamentals) = ClaimHalf
        /\ q_in.fundamentals.current_ratio = None =>
              CurrentRatioScore(q_in.fundamentals) = ClaimHalf
        /\ (/\ q_in.fundamentals.profit_margin = None
            /\ q_in.fundamentals.debt_to_equity = None
            /\ q_in.fundamentals.current_ratio = None) =>
              /\ q_raw.financial_strength_score = ClaimHalf
              /\ q_raw.financial_strength_score =
                    calculate_financial_strength_score(None)

\* A record with the three fields absent was scored 0.575, its debt/equity
\* term being 0.75.
C22_Witness ==
    /\ ClaimScoredRecord
    /\ q_in.fundamentals = Fundamentals(None, None, None, None)
    /\ DebtToEquityScore(q_in.fundamentals) = F(75, 100)
    /\ q_raw.financial_strength_score = F(575, 1000)
    /\ calculate_financial_strength_score(None) = ClaimHalf

\* The current-ratio term of a record whose current ratio is cr.
ClaimCurrentRatioTerm(cr) ==
    CurrentRatioScore(Fundamentals(None, None, cr, None))

\* C23: the current-ratio term grows with the current ratio on the whole
\* range from 0 to 3 (a ratio below 3 scores less than 3 does, and a lower
\* ratio less than a higher one), reaches its maximum 1.0 at 3 and stays
\* there above 3.
C23_CurrentRatioRewardedUpToThree ==
    ClaimScoredRecord /\ q_in.fundamentals.current_ratio # None =>
        /\ ClaimCurrentRatioTerm(FInt(3)) = FInt(1)
        /\ FLe(FInt(3), q_in.fundamentals.current_ratio) =>
              CurrentRatioScore(q_in.fundamentals) = FInt(1)
        /\ FLt(q_in.fundamentals.current_ratio, FInt(3)) =>
              FLt(CurrentRatioScore(q_in.fundamentals), FInt(1))
        /\ \A cr \in CurrentRatios \ {None} :
              FLt(cr, q_in.fundamentals.current_ratio)
                /\ FLe(q_in.fundamentals.current_ratio, FInt(3)) =>
                  FLt(ClaimCurrentRatioTerm(cr),
                      CurrentRatioScore(q_in.fundamentals))

\* A record with a current ratio of 2.5 whose term is already 1.0, as for
\* a ratio of 2 and of 3.
C23_Witness ==
    /\ ClaimScoredRecord
    /\ q_in.fundamentals.current_ratio = F(5, 2)
    /\ CurrentRatioScore(q_in.fundamentals) = FInt(1)
    /\ ClaimCurrentRatioTerm(FInt(2)) = FInt(1)
    /\ ClaimCurrentRatioTerm(FInt(3)) = FInt(1)

\* floor + exp(-(x - peak)^2 / (2 sigma^2)) * (1 - floor)
ClaimBell(x, peak, sigma) ==
    FAdd(F(15, 100),
         FMul(Exp(FDiv(FNeg(FMul(FSub(x, peak), FSub(x, peak))),
                       FMul(FInt(2), FMul(sigma, sigma)))),
              FSub(FInt(1), F(15, 100))))

\* C24 for total return x and peak: the floor for x <= 0, 1.0 at the peak,
\* a value in [floor, 1.0] always, the left spread for 0 < x < peak and the
\* right spread for x >= peak.
ClaimTotalReturnScore(x, peak, score) ==
    /\ FLe(x, FZero) => score = F(15, 100)
    /\ x = peak => score = FInt(1)
    /\ FLe(F(15, 100), score) /\ FLe(score, FInt(1))
    /\ FLt(FZero, x) /\ FLt(x, peak) => score = ClaimBell(x, peak, F(6, 100))
    /\ FLt(FZero, x) /\ FLe(peak, x) => score = ClaimBell(x, peak, F(10, 100))

\* C24: score_total_return(x, peak) is the configured floor for every
\* x <= 0, is 1.0 when x equals the peak, lies in [floor, 1.0] for every x,
\* and uses the left spread for 0 < x < peak and the right spread for
\* x >= peak.
C24_BellCurveFloorPeakAndSpreads ==
    q_pc = "done" /\ q_raw # None =>
        ClaimTotalReturnScore(TotalReturnOf(q_in), q_in.target_annual_return,
                              q_raw.total_return_score)

\* A call whose total return is below the peak and above 0, scored between
\* the floor and 1.0 by the left spread, which the right spread would have
\* scored higher.
C24_Witness ==
    /\ q_pc = "done"
    /\ q_raw # None
    /\ TotalReturnOf(q_in) = F(5, 100)
    /\ q_in.target_annual_return = F(11, 100)
    /\ FLt(F(15, 100), q_raw.total_return_score)
    /\ FLt(q_raw.total_return_score,
           ClaimBell(F(5, 100), F(11, 100), F(10, 100)))

\* A call whose total return equals the peak, scored 1.0.
C24_PeakWitness ==
    /\ q_pc = "done"
    /\ q_raw # None
    /\ TotalReturnOf(q_in) = q_in.target_annual_return
    /\ q_raw.total_return_score = FInt(1)

\* min(1.0, weighted sum of the five component scores + dividend bonus)
ClaimCappedWeightedSum(c) ==
    FMin(FInt(1),
         FAdd(FAdd(FAdd(FAdd(FAdd(FMul(c.total_return_score, F(40, 100)),
                                  FMul(c.consistency_score, F(20, 100))),
                             FMul(c.financial_strength_score, F(20, 100))),
                        FMul(c.sharpe_ratio_score, F(10, 100))),
                   FMul(c.max_drawdown_score, F(10, 100))),
              c.dividend_bonus))

\* 0 for an absent or non-positive yield, else the low, mid or high tier.
ClaimDividendBonus(dividend_yield) ==
    IF dividend_yield = None THEN FZero
    ELSE IF FLe(dividend_yield, FZero) THEN FZero
    ELSE IF FLt(dividend_yield, F(3, 100)) THEN F(3, 100)
    ELSE IF FLt(dividend_yield, F(6, 100)) THEN F(7, 100)
    ELSE F(10, 100)

\* C25: a returned QualityScore has total = min(1.0, weighted sum of the
\* five component scores + dividend bonus) (to 3 decimals) in [0, 1], each
\* of the five component scores in [0, 1], and a dividend bonus that is 0
\* for an absent or non-positive yield and otherwise steps up through the
\* low, mid and high tier.
C25_QualityTotalAndComponentsInUnitInterval ==
    q_pc = "done" /\ q_out # None =>
        /\ q_out.total = Round3(ClaimCappedWeightedSum(q_raw))
        /\ ClaimInUnit(q_out.total)
        /\ ClaimInUnit(q_raw.total_return_score)
        /\ ClaimInUnit(q_raw.consistency_score)
        /\ ClaimInUnit(q_raw.financial_strength_score)
        /\ ClaimInUnit(q_raw.sharpe_ratio_score)
        /\ ClaimInUnit(q_raw.max_drawdown_score)
        /\ q_raw.dividend_bonus =
              ClaimDividendBonus(DividendYieldOf(q_in.fundamentals))
        /\ FLe(LOW_DIVIDEND_BONUS, MID_DIVIDEND_BONUS)
        /\ FLe(MID_DIVIDEND_BONUS, HIGH_DIVIDEND_BONUS)

\* A returned QualityScore whose financial strength component is above 1:
\* profit margin 0.2, debt/equity -100, current ratio 3 give 1.15.
C25_Witness ==
    /\ q_pc = "done"
    /\ q_out # None
    /\ q_in.fundamentals = Fundamentals(F(2, 10), FInt(-100), FInt(3), None)
    /\ DebtToEquityScore(q_in.fundamentals) = F(15, 10)
    /\ FLt(FInt(1), q_raw.financial_strength_score)
    /\ FLt(FInt(1), q_out.financial_strength_score)

\* The financial strength of record f with its debt/equity replaced by de.
ClaimStrengthWithDebt(f, de) ==
    calculate_financial_strength_score(
        Fundamentals(f.profit_margin, de, f.current_ratio, f.dividend_yield))

\* C28: with the other fields fixed, the financial strength score never
\* rises with debt_to_equity from 0 upward: any debt/equity between 0 and
\* the record's own scores at least as high as the record, 0 included.
C28_LowerDebtNeverScoredWorse ==
    (/\ ClaimScoredRecord
     /\ q_in.fundamentals.debt_to_equity # None
     /\ FLe(FZero, q_in.fundamentals.debt_to_equity)) =>
        \A de \in DebtToEquities \ {None} :
            FLe(FZero, de) /\ FLe(de, q_in.fundamentals.debt_to_equity) =>
                FLe(q_raw.financial_strength_score,
                    ClaimStrengthWithDebt(q_in.fundamentals, de))

\* A record with a debt/equity of exactly 0 whose debt term is the 0.75 of
\* a debt/equity of 50, below the 0.95 of a debt/equity of 10.
C28_Witness ==
    /\ ClaimScoredRecord
    /\ q_in.fundamentals.debt_to_equity = FZero
    /\ DebtToEquityScore(q_in.fundamentals) = F(75, 100)
    /\ FLt(q_raw.financial_strength_score,
           ClaimStrengthWithDebt(q_in.fundamentals, FInt(10)))

\* A stored component score, the neutral 0.5 when it is missing.
ClaimNeutral(x) == IF x = None THEN F(5, 10) ELSE x

\* The Stock Scorer's 4-term blend of the row's stored component scores.
ClaimScorerBlend(stock) ==
    WeightedTotal(ClaimNeutral(stock.quality_score),
                  ClaimNeutral(stock.opportunity_score),
                  ClaimNeutral(stock.analyst_score),
                  [total |-> stock.fit_total])

ClaimRowsScored == rb_pc \in {"ranking", "allocating", "done"} /\ rb_reads # {}

\* C26: the final score the Rebalancing Selector computes for every
\* security of the universe equals the Stock Scorer's 4-term blend
\* 0.35 quality + 0.35 opportunity + 0.15 analyst + 0.15 allocation fit of
\* the same stored component scores, a missing one taken as 0.5; the
\* securities that qualify are those whose blend reaches the minimum score.
C26_SelectorScoreEqualsScorerBlend ==
    ClaimRowsScored =>
        /\ \A i \in 1..Len(stocks_data) :
              FinalScore(stocks_data[i]) = ClaimScorerBlend(stocks_data[i])
        /\ \A i \in 1..Len(priority_inputs) :
              \E j \in 1..Len(stocks_data) :
                  /\ stocks_data[j].symbol = priority_inputs[i].symbol
                  /\ priority_inputs[i].stock_score =
                        ClaimScorerBlend(stocks_data[j])

\* A universe with a security whose quality score is missing was scored:
\* the selector gave it 0.25 where the blend with the neutral 0.5 is 0.425.
C26_Witness ==
    /\ ClaimRowsScored
    /\ \E i \in 1..Len(stocks_data) :
          /\ stocks_data[i].quality_score = None
          /\ FinalScore(stocks_data[i]) = F(25, 100)
          /\ ClaimScorerBlend(stocks_data[i]) = F(425, 1000)

\* The same for the securities whose quality score is stored.
C26_EqualWhenQualityStored ==
    ClaimRowsScored =>
        \A i \in 1..Len(stocks_data) :
            stocks_data[i].quality_score # None =>
                FinalScore(stocks_data[i]) = ClaimScorerBlend(stocks_data[i])

\* C27: every TradeRecommendation of calculate_rebalance_trades has an
\* estimated value, quantity x price after the quantity was rounded down to
\* whole lots, of at least the minimum trade size.
C27_EveryRecommendationReachesMinTradeSize ==
    \A i \in 1..Len(recommendations) :
        /\ FLe(settings.min_trade_size, recommendations[i].estimated_value)
        /\ FLe(settings.min_trade_size,
               FMul(FInt(recommendations[i].quantity),
                    ClaimRow(recommendations[i].symbol).price))

\* A returned recommendation of 64 shares at 6.16: 394.24, below the
\* minimum trade size of 400 the amount to invest had reached.
C27_Witness ==
    /\ rb_pc = "done"
    /\ available_cash = FInt(400)
    /\ settings.min_trade_size = FInt(400)
    /\ Len(recommendations) = 1
    /\ recommendations[1].symbol = "HIGH"
    /\ recommendations[1].quantity = 64
    /\ recommendations[1].estimated_value = F(39424, 100)

(***************************************************************************)
(* One run of _reconstruct_portfolio_history as a state machine.           *)
(***************************************************************************)
HistInit ==
    /\ hs_pc = "start"
    /\ trades \in TradeTables
    /\ cash_flow_rows \in SUBSET CashFlowRowValues
    /\ portfolio_snapshots \in SnapshotTables
    /\ start_date = 0
    /\ end_date = 0
    /\ existing_snapshots = {}
    /\ cash_flows = <<>>
    /\ initial_cash = 0
    /\ current_date = 0
    /\ positions = <<>>
    /\ cash_balance = 0
    /\ trade_index = 0
    /\ processed = 0
    /\ hs_applied = <<>>
    /\ GenIdle
    /\ SizeIdle
    /\ ScoreIdle
    /\ RebIdle
    /\ JobsIdle
    /\ RefreshIdle
    /\ QualityIdle

hist_locals == <<start_date, end_date, existing_snapshots, cash_flows,
                 initial_cash, current_date, positions, cash_balance,
                 trade_index, processed, hs_applied>>

\* Lines 194-196: no trades, nothing to reconstruct.
HistNoTrades ==
    /\ hs_pc = "start"
    /\ trades = <<>>
    /\ hs_pc' = "returned"
    /\ UNCHANGED <<trades, cash_flow_rows, portfolio_snapshots, hist_locals>>
    /\ UNCHANGED hist_frame

\* Lines 199-214: the first or the last executed_at does not parse.
HistBadTradeDates ==
    /\ hs_pc = "start"
    /\ trades # <<>>
    /\ \/ trades[1].executed_at = BadDate
       \/ trades[Len(trades)].executed_at = BadDate
    /\ hs_pc' = "returned"
    /\ UNCHANGED <<trades, cash_flow_rows, portfolio_snapshots, hist_locals>>
    /\ UNCHANGED hist_frame

\* Lines 199-246: the date range and the values read before the loop.
HistPrepare ==
    /\ hs_pc = "start"
    /\ trades # <<>>
    /\ trades[1].executed_at # BadDate
    /\ trades[Len(trades)].executed_at # BadDate
    /\ start_date' = Min(trades[1].executed_at, Epoch2010)
    /\ end_date' = Max(trades[Len(trades)].executed_at, Today)
    /\ existing_snapshots' = DOMAIN portfolio_snapshots
    /\ cash_flows' = GetCashFlows(cash_flow_rows)
    /\ initial_cash' = GetInitialCashBalance(portfolio_snapshots, trades)
    /\ current_date' = start_date'
    /\ positions' = [s \in HistSymbols |-> 0]
    /\ cash_balance' = initial_cash'
    /\ processed' = 0
    /\ trade_index' = 0
    /\ hs_pc' = "loop"
    /\ UNCHANGED <<trades, cash_flow_rows, portfolio_snapshots, hs_applied>>
    /\ UNCHANGED hist_frame

\* Lines 248-254: the date has a snapshot already and is passed over.
HistSkipDate ==
    /\ hs_pc = "loop"
    /\ current_date <= end_date
    /\ current_date \in existing_snapshots
    /\ current_date' = current_date + 1
    /\ UNCHANGED <<hs_pc, trades, cash_flow_rows, portfolio_snapshots,
                   start_date, end_date, existing_snapshots, cash_flows,
                   initial_cash, positions, cash_balance, trade_index,
                   processed, hs_applied>>
    /\ UNCHANGED hist_frame

\* The loop state after the trades of lines 257-287.
HistAfterTrades ==
    ApplyTradesUpTo(trades,
                    [trade_index |-> trade_index, positions |-> positions,
                     cash_balance |-> cash_balance, applied |-> hs_applied],
                    current_date)

\* Lines 248-337: the trades up to the date, its cash flow, its snapshot.
HistSnapshotDate ==
    /\ hs_pc = "loop"
    /\ current_date <= end_date
    /\ current_date \notin existing_snapshots
    /\ trade_index' = HistAfterTrades.trade_index
    /\ positions' = HistAfterTrades.positions
    /\ hs_applied' = HistAfterTrades.applied
    /\ cash_balance' = HistAfterTrades.cash_balance
                        + CashFlowOn(cash_flows, current_date)
    /\ portfolio_snapshots' =
        [d \in DOMAIN portfolio_snapshots \cup {current_date} |->
            IF d = current_date
            THEN [total_value |-> cash_balance'
                        + PositionsValue(positions', HistSymbols, d),
                  cash_balance |-> cash_balance']
            ELSE portfolio_snapshots[d]]
    /\ processed' = processed + 1
    /\ current_date' = current_date + 1
    /\ UNCHANGED <<hs_pc, trades, cash_flow_rows, start_date, end_date,
                   existing_snapshots, cash_flows, initial_cash>>
    /\ UNCHANGED hist_frame

\* Lines 248 and 339-340: the range is done, the snapshots are committed.
HistCommit ==
    /\ hs_pc = "loop"
    /\ current_date > end_date
    /\ hs_pc' = "returned"
    /\ UNCHANGED <<trades, cash_flow_rows, portfolio_snapshots, hist_locals>>
    /\ UNCHANGED hist_frame

HistNext ==
    \/ HistNoTrades
    \/ HistBadTradeDates
    \/ HistPrepare
    \/ HistSkipDate
    \/ HistSnapshotDate
    \/ HistCommit

SpecHist == HistInit /\ [][HistNext]_vars

\* The run got past the reads of lines 199-246.
ClaimPrepared == hs_pc \in {"loop", "returned"} /\ start_date > 0

\* Dates whose snapshot this run wrote.
ClaimWritten == DOMAIN portfolio_snapshots \ existing_snapshots

RECURSIVE ClaimFlowSum(_, _)
\* The cash flows of the dates in ds.
ClaimFlowSum(flows, ds) ==
    IF ds = {} THEN 0
    ELSE LET d == CHOOSE x \in ds : TRUE
         IN CashFlowOn(flows, d) + ClaimFlowSum(flows, ds \ {d})

RECURSIVE ClaimTradeCash(_, _, _)
\* The cash effect of the trades dated up to d.
ClaimTradeCash(trs, i, d) ==
    IF i > Len(trs) THEN 0
    ELSE (IF trs[i].executed_at = BadDate \/ trs[i].executed_at > d THEN 0
          ELSE IF trs[i].side = "BUY" THEN 0 - trs[i].quantity * trs[i].price
          ELSE IF trs[i].side = "SELL" THEN trs[i].quantity * trs[i].price
          ELSE 0)
         + ClaimTradeCash(trs, i + 1, d)

\* Cash a snapshot of date d has by the claim.
ClaimCashAt(d) ==
    initial_cash + ClaimFlowSum(cash_flows, start_date..d)
        + ClaimTradeCash(trades, 1, d)

\* Every trade is applied at most once, in the order of the table.
ClaimTradesOnceInOrder ==
    \A i, j \in 1..Len(hs_applied) : i < j => hs_applied[i] < hs_applied[j]

\* The snapshots that existed before the run are as they were.
ClaimExistingKept ==
    \A d \in existing_snapshots :
        d \in DOMAIN portfolio_snapshots
            /\ portfolio_snapshots[d] = ExistingSnapshot(d)

\* C30: the reconstruction applies every trade at most once in executed_at
\* order and every cash flow once on its date, so the snapshot it writes for
\* a date d records the initial cash plus every cash flow from the start
\* date to d plus the cash effect of every trade dated up to d, also when
\* earlier dates had a snapshot and were passed over; the snapshots that
\* existed are not overwritten.
C30_SnapshotCashIsInitialPlusFlowsPlusTrades ==
    ClaimPrepared =>
        /\ ClaimTradesOnceInOrder
        /\ ClaimExistingKept
        /\ \A d \in ClaimWritten :
                portfolio_snapshots[d].cash_balance = ClaimCashAt(d)

\* Day 2 had a snapshot and a cash flow of 100: the day is passed over with
\* its cash flow, and the snapshot written for day 3 records 490 where the
\* initial 520, the flow of 100 and the buy of 30 make 590.
C30_Witness ==
    /\ hs_pc = "returned"
    /\ trades = <<Trade("AAA", "BUY", 3, 10, 1)>>
    /\ cash_flow_rows = {CashFlow(2, 100, "completed", 3)}
    /\ existing_snapshots = {2}
    /\ initial_cash = 520
    /\ ClaimWritten = {1, 3}
    /\ portfolio_snapshots[1].cash_balance = 490
    /\ portfolio_snapshots[3].cash_balance = 490
    /\ ClaimCashAt(3) = 590

\* The written snapshots lack exactly the cash flows of the dates passed
\* over: cash is the initial cash plus the flows of the dates written up to
\* d plus the trades dated up to d; the trades are applied once, in order,
\* and the existing snapshots are kept.
C30_CashLacksOnlySkippedFlows ==
    ClaimPrepared =>
        /\ ClaimTradesOnceInOrder
        /\ ClaimExistingKept
        /\ \A d \in ClaimWritten :
                portfolio_snapshots[d].cash_balance =
                    initial_cash
                    + ClaimFlowSum(cash_flows,
                                   (start_date..d) \ existing_snapshots)
                    + ClaimTradeCash(trades, 1, d)

====
